---------------------------- MODULE Spec2Model ----------------------------
(* A model of the note-agent-ML extraction-and-assembly pipeline:           *)
(*   - LLMExtractor (src/ml/extraction.py): object pass, relationship pass, *)
(*     JSON repair, deduplication, span reconciliation, mentions, tables;   *)
(*   - KnowledgeGraph (src/ml/graph.py): a networkx DiGraph of objects.     *)
(* Each component has its own specification over the shared variables; the  *)
(* variables of the other components stay at their initial values.          *)
EXTENDS Integers, Sequences, FiniteSets, TLC

VARIABLES
    \* ---- _deduplicate_objects applied as a pure function ----
    dd_stage,        \* "input" | "once" | "twice"
    dd_in,           \* the list handed to _deduplicate_objects
    dd_out,          \* its result
    dd_twice,        \* the result of applying it to dd_out
    \* ---- one LLMExtractor and its extract() call ----
    pc,              \* "idle" | "obj" | "rel" | "done": position of extract()
    is_retry,        \* the is_retry argument of the pass awaiting the service
    svc_log,         \* one entry per reasoning-service call of this run
    ex_args,         \* arguments of extract(): text, note_id, span_id, chunks
    ex_chunks,       \* the caller's Chunk objects (mutated in place)
    all_objects,     \* extract()'s local all_objects after deduplication
    ex_result,       \* the returned ExtractionResult (a set: {} until returned)
    objects_table,   \* self.objects_table
    links_table,     \* self.links_table
    \* ---- one KnowledgeGraph ----
    g_nodes,         \* self.graph nodes: node id -> attribute record
    g_edges,         \* self.graph edges: <<u, v>> -> attribute record
    g_last,          \* the last call on the graph and the graph before it
    \* ---- the notes database and one chunk_text_task call ----
    note_sents,      \* doc.sents of the note's text: one token count each
    note_status,     \* notes.status of the note
    spans_table,     \* the rows of the spans table
    seg_pc,          \* position of chunk_text_task
    seg_args,        \* its arguments
    spans,           \* its local list spans
    seg_ret,         \* how the last call ended
    seg_before,      \* note_status and spans_table when the call started, and
                     \* the spans list of the call that last set the status
    \* ---- one HybridSearchEngine ----
    sr_chunks,       \* self.chunks
    sr_embed,        \* whether self.embedding_generator is set
    sr_graph,        \* whether self.graph is set (to the KnowledgeGraph above)
    sr_last,         \* the last call on the engine and what it returned
    ts_last          \* the last task search and what it returned

ddVars == <<dd_stage, dd_in, dd_out, dd_twice>>
exVars == <<pc, is_retry, svc_log, ex_args, ex_chunks, all_objects, ex_result,
            objects_table, links_table>>
gVars  == <<g_nodes, g_edges, g_last>>
segVars == <<note_sents, note_status, spans_table, seg_pc, seg_args, spans,
             seg_ret, seg_before>>
srVars == <<sr_chunks, sr_embed, sr_graph, sr_last, ts_last>>
vars   == <<ddVars, exVars, gVars, segVars, srVars>>

-----------------------------------------------------------------------------
(* Bounds of the model.                                                     *)
MaxObjs == 3

-----------------------------------------------------------------------------
(* Generic helpers.                                                         *)

Range(s) == { s[i] : i \in 1..Len(s) }

SeqsUpTo(S, n) == UNION { [1..k -> S] : k \in 0..n }

Max(a, b) == IF a >= b THEN a ELSE b
Min(a, b) == IF a <= b THEN a ELSE b

\* Optional[int]: None is the empty set, a value v is {v}.
None == {}
Some(v) == {v}
TheValue(o) == CHOOSE v \in o : TRUE

Digit(d) == CASE d = 0 -> "0" [] d = 1 -> "1" [] d = 2 -> "2" [] d = 3 -> "3"
              [] d = 4 -> "4" [] d = 5 -> "5" [] d = 6 -> "6" [] d = 7 -> "7"
              [] d = 8 -> "8" [] d = 9 -> "9"

RECURSIVE Str(_)
\* str(n) / f"{n}" for n >= 0
Str(n) == IF n < 10 THEN Digit(n) ELSE Str(n \div 10) \o Digit(n % 10)

\* f"{n:03d}" for n >= 0: zero-padded to at least three digits
Fmt03d(n) == IF n < 10 THEN "00" \o Str(n)
             ELSE IF n < 100 THEN "0" \o Str(n)
             ELSE Str(n)

TempId(i) == "temp_" \o Str(i)          \* f"temp_{i}", i from 0
ObjId(i) == "obj_" \o Fmt03d(i + 1)     \* f"obj_{i + 1:03d}", i from 0
SpanId(idx) == "span_" \o Fmt03d(idx)   \* f"span_{idx:03d}", idx from 0

-----------------------------------------------------------------------------
(* ExtractedObject and its confidence validator.                            *)

ObjectTypes == {"Idea", "Claim", "Assumption", "Question", "Task", "Evidence",
                "Definition"}

\* mutant: only the upper end is clamped
clamp_confidence_nofloor(v) == Min(10, v)

\* Confidence is modelled in tenths: 15 is 1.5, -3 is -0.3.
clamp_confidence(v) == Max(0, Min(10, v))

\* ExtractedObject(id=..., type=..., canonical_text=..., confidence=..., span_start=...)
ExtractedObject(id, type, text, conf, span_start) ==
    [id |-> id, type |-> type, canonical_text |-> text,
     confidence |-> clamp_confidence(conf), span_start |-> span_start]

-----------------------------------------------------------------------------
(* _deduplicate_objects.                                                    *)

\* A canonical_text is a sequence of words separated by whitespace; a word
\* is a string, and the upper-case words of the model are listed here.
Lower(w) == CASE w = "W1" -> "w1" [] OTHER -> w

\* set(canonical_text.lower().strip().split())
WordSet(text) == { Lower(text[i]) : i \in 1..Len(text) }

TYPE_PRIORITY(t) == CASE t = "Idea" -> 1 [] t = "Question" -> 2 [] t = "Task" -> 3
                      [] t = "Assumption" -> 4 [] t = "Definition" -> 5
                      [] t = "Evidence" -> 6 [] t = "Claim" -> 7 [] OTHER -> 99

\* mutant: the threshold 0.9 in place of 0.8
OverlapExceeds_09(a, b) ==
    10 * Cardinality(a \cap b) > 9 * Max(Cardinality(a), Cardinality(b))

\* len(words_a & words_b) / max(len(words_a), len(words_b)) > 0.8, in integers
OverlapExceeds(a, b) ==
    5 * Cardinality(a \cap b) > 4 * Max(Cardinality(a), Cardinality(b))

\* the inner loop over seen_texts: empty word sets are skipped
IsDup(text, seen_texts) ==
    \E i \in 1..Len(seen_texts) :
        LET words_a == WordSet(text)
            words_b == WordSet(seen_texts[i])
        IN  /\ words_a # {}
            /\ words_b # {}
            /\ OverlapExceeds(words_a, words_b)

RECURSIVE SortFrom(_, _)
\* all_objects.sort(key=TYPE_PRIORITY): a stable sort, one priority at a time
SortFrom(objs, p) ==
    IF p > 7 THEN SelectSeq(objs, LAMBDA o : TYPE_PRIORITY(o.type) > 7)
    ELSE SelectSeq(objs, LAMBDA o : TYPE_PRIORITY(o.type) = p) \o SortFrom(objs, p + 1)

Reverse(s) == [i \in 1..Len(s) |-> s[Len(s) + 1 - i]]

RECURSIVE SortFromUnstable(_, _)
SortFromUnstable(objs, p) ==
    IF p > 7 THEN SelectSeq(objs, LAMBDA o : TYPE_PRIORITY(o.type) > 7)
    ELSE Reverse(SelectSeq(objs, LAMBDA o : TYPE_PRIORITY(o.type) = p))
         \o SortFromUnstable(objs, p + 1)

\* mutant: a sort that is not stable (objects of equal priority change order)
SortByPriority_unstable(objs) == SortFromUnstable(objs, 1)

\* mutant: the sort left out
SortByPriority_unsorted(objs) == objs

SortByPriority(objs) == SortFrom(objs, 1)

RECURSIVE DedupWalk(_, _, _)
\* the loop "for obj in all_objects": deduped is the list kept so far
DedupWalk(sorted, i, deduped) ==
    IF i > Len(sorted) THEN deduped
    ELSE LET obj == sorted[i]
             seen_texts == [k \in 1..Len(deduped) |-> deduped[k].canonical_text]
         IN  IF IsDup(obj.canonical_text, seen_texts)
             THEN DedupWalk(sorted, i + 1, deduped)
             ELSE DedupWalk(sorted, i + 1, Append(deduped, obj))

\* "Re-number IDs": obj.id = f"obj_{i + 1:03d}"
Renumber(deduped) ==
    [i \in 1..Len(deduped) |-> [deduped[i] EXCEPT !.id = ObjId(i - 1)]]

_deduplicate_objects(objs) == Renumber(DedupWalk(SortByPriority(objs), 1, <<>>))

-----------------------------------------------------------------------------
(* Inputs of the deduplication specification.                               *)

T_empty  == <<>>
T_4      == <<"w1", "w2", "w3", "w4">>
T_4upper == <<"W1", "w2", "w3", "w4">>
T_5      == <<"w1", "w2", "w3", "w4", "w5">>
T_6a     == <<"w1", "w2", "w3", "w4", "w5", "w6">>
T_6b     == <<"w1", "w2", "w3", "w4", "w5", "w7">>
T_6c     == <<"w2", "w3", "w4", "w5", "w7", "w8">>

DedupTexts == {T_empty, T_4, T_4upper, T_5, T_6a, T_6b, T_6c}
DedupTypes == {"Idea", "Task", "Claim"}

\* the candidates as _extract_batch builds them: ids temp_0, temp_1, ...
DedupInputs ==
    { [i \in 1..Len(s) |-> ExtractedObject(TempId(i - 1), s[i][1], s[i][2], 8, None)] :
        s \in SeqsUpTo(DedupTypes \X DedupTexts, MaxObjs) }


-----------------------------------------------------------------------------
(* The reasoning service's answer and its parsing.                          *)
(*                                                                          *)
(* A raw response body is its JSON value together with what is wrong with   *)
(* its text: a subset of the three defects the repair pass removes, and     *)
(* whether the text is broken beyond them.  A JSON value is                 *)
(*   [k |-> "object", items |-> <<...>>]  an object whose "objects"/"links" *)
(*                                        member is the array items (or is  *)
(*                                        absent: items = <<>>)             *)
(*   [k |-> "object_no_array"]            an object whose member is null or *)
(*                                        a number (not iterable)           *)
(*   [k |-> "not_object"]                 an array, a string or a number    *)
(*   [k |-> "null"]                       JSON null                         *)

Defects == {"fence", "trailing_comma", "control_char"}

Raw(defects, broken, value) == [defects |-> defects, broken |-> broken, value |-> value]

\* json.loads(raw): JSONDecodeError on any defect; JSON null loads as None
json_loads(raw) ==
    IF raw.defects # {} \/ raw.broken
    THEN [decode_error |-> TRUE, parsed |-> None]
    ELSE [decode_error |-> FALSE,
          parsed |-> IF raw.value.k = "null" THEN None ELSE Some(raw.value)]

\* re.sub(r'^```(?:json)?\s*', '', raw.strip()) and re.sub(r'\s*```$', '', cleaned)
StripFences(raw) == [raw EXCEPT !.defects = @ \ {"fence"}]
\* re.sub(r'[\x00-\x08\x0b\x0c\x0e-\x1f]', '', cleaned)
StripControlChars(raw) == [raw EXCEPT !.defects = @ \ {"control_char"}]
\* re.sub(r',\s*([}\]])', r'\1', cleaned)
FixTrailingCommas(raw) == [raw EXCEPT !.defects = @ \ {"trailing_comma"}]

\* _attempt_json_repair: the parsed value, or None
_attempt_json_repair(raw) ==
    LET cleaned == FixTrailingCommas(StripControlChars(StripFences(raw)))
        r == json_loads(cleaned)
    IN  IF r.decode_error THEN None ELSE r.parsed

\* "try: parsed = json.loads(raw_json) except JSONDecodeError: parsed = repair"
ParseResponse(raw) ==
    LET r == json_loads(raw)
    IN  IF r.decode_error THEN _attempt_json_repair(raw) ELSE r.parsed

\* What the service answered, as the log of calls records it:
\*   "raised"       the call raised
\*   "unparseable"  the body is no JSON text, not even after the repair
\*   "strict"       the body is strict JSON: an object with an array member
\*   "repaired"     the same after the repair only
\*   "invalid"      the body is JSON (strict or after the repair) of another
\*                  shape: null, not an object, or an object without an array
CallClass(outcome) ==
    IF outcome.out = "raise" THEN "raised"
    ELSE IF outcome.raw.broken THEN "unparseable"
    ELSE IF outcome.raw.value.k # "object" THEN "invalid"
    ELSE IF outcome.raw.defects = {} THEN "strict"
    ELSE "repaired"

\* the array of an answer that is an object with an array member
CallItems(outcome) ==
    IF CallClass(outcome) \in {"strict", "repaired"} THEN outcome.raw.value.items
    ELSE <<>>

LogEntry(pass, outcome) ==
    [pass |-> pass, class |-> CallClass(outcome), items |-> CallItems(outcome)]

-----------------------------------------------------------------------------
(* _extract_batch and _extract_relationships: one service call each step.   *)

LinkTypes == {"Supports", "Contradicts", "Refines", "DependsOn", "SameAs", "Causes"}

\* Link(**item): the confidence validator clamps
Link(source_id, target_id, type, conf) ==
    [source_id |-> source_id, target_id |-> target_id, type |-> type,
     confidence |-> clamp_confidence(conf)]

RECURSIVE BuildObjects(_, _, _)
\* the loop "for i, item in enumerate(items)": an item pydantic rejects is
\* skipped, the others become ExtractedObject(id=f"temp_{i}", ...)
BuildObjects(items, i, objects) ==
    IF i > Len(items) THEN objects
    ELSE IF items[i].type \notin ObjectTypes
         THEN BuildObjects(items, i + 1, objects)
         ELSE BuildObjects(items, i + 1,
                  Append(objects,
                         ExtractedObject(TempId(i - 1), items[i].type, items[i].text,
                                         items[i].confidence, items[i].span_start)))

RECURSIVE BuildLinksUnchecked(_, _, _, _)
\* mutant: the endpoints of a link are not checked
BuildLinksUnchecked(items, i, valid_ids, links) ==
    IF i > Len(items) THEN links
    ELSE IF items[i].type \notin LinkTypes
         THEN BuildLinksUnchecked(items, i + 1, valid_ids, links)
         ELSE BuildLinksUnchecked(items, i + 1, valid_ids,
                  Append(links, Link(items[i].source_id, items[i].target_id,
                                     items[i].type, items[i].confidence)))

RECURSIVE BuildLinks(_, _, _, _)
\* the loop "for item in parsed.get('links', [])": an item pydantic rejects is
\* skipped; a link is kept when both endpoints are in valid_ids
BuildLinks(items, i, valid_ids, links) ==
    IF i > Len(items) THEN links
    ELSE IF items[i].type \notin LinkTypes
         THEN BuildLinks(items, i + 1, valid_ids, links)
         ELSE LET link == Link(items[i].source_id, items[i].target_id,
                               items[i].type, items[i].confidence)
              IN  IF link.source_id \in valid_ids /\ link.target_id \in valid_ids
                  THEN BuildLinks(items, i + 1, valid_ids, Append(links, link))
                  ELSE BuildLinks(items, i + 1, valid_ids, links)

\* The body of the try block of _extract_batch, up to its return:
\*   "exception"  the call raised, or parsed.get / enumerate raised
\*   "none"       parsed is None
\*   "value"      the list the body returns
BatchBody(outcome) ==
    IF outcome.out = "raise" THEN [status |-> "exception", value |-> <<>>]
    ELSE LET parsed == ParseResponse(outcome.raw)
         IN  IF parsed = None THEN [status |-> "none", value |-> <<>>]
             ELSE IF TheValue(parsed).k # "object"
                  THEN [status |-> "exception", value |-> <<>>]
                  ELSE [status |-> "value",
                        value |-> BuildObjects(TheValue(parsed).items, 1, <<>>)]

\* The body of the try block of _extract_relationships
RelBody(outcome, objects) ==
    IF outcome.out = "raise" THEN [status |-> "exception", value |-> <<>>]
    ELSE LET parsed == ParseResponse(outcome.raw)
         IN  IF parsed = None THEN [status |-> "none", value |-> <<>>]
             ELSE IF TheValue(parsed).k # "object"
                  THEN [status |-> "exception", value |-> <<>>]
                  ELSE [status |-> "value",
                        value |-> BuildLinks(TheValue(parsed).items, 1,
                                             { objects[k].id : k \in 1..Len(objects) },
                                             <<>>)]

\* mutant: "if parsed is None" regenerates whatever is_retry is
PassStep_none_unbounded(body, retry) ==
    IF body.status = "value" THEN [kind |-> "return", value |-> body.value]
    ELSE IF body.status = "none" THEN [kind |-> "retry", value |-> <<>>]
    ELSE IF ~retry THEN [kind |-> "retry", value |-> <<>>]
    ELSE [kind |-> "return", value |-> <<>>]

\* mutant: "except Exception" regenerates whatever is_retry is
PassStep_except_unbounded(body, retry) ==
    IF body.status = "value" THEN [kind |-> "return", value |-> body.value]
    ELSE IF body.status = "none"
         THEN (IF ~retry THEN [kind |-> "retry", value |-> <<>>]
               ELSE [kind |-> "return", value |-> <<>>])
    ELSE [kind |-> "retry", value |-> <<>>]

\* mutant: the first answer is regenerated even when it parsed
PassStep_always(body, retry) ==
    IF ~retry THEN [kind |-> "retry", value |-> <<>>]
    ELSE [kind |-> "return", value |-> body.value]

\* What both passes do with the outcome of the try block.
PassStep(body, retry) ==
    IF body.status = "value"
    THEN \* "return objects" / "return links"
         [kind |-> "return", value |-> body.value]
    ELSE IF body.status = "none"
    THEN \* "if parsed is None: if not is_retry: return self._extract_...(is_retry=True)"
         (IF ~retry THEN [kind |-> "retry", value |-> <<>>]
          ELSE [kind |-> "return", value |-> <<>>])
    ELSE \* "except Exception: if not is_retry: return self._extract_...(is_retry=True)"
         (IF ~retry THEN [kind |-> "retry", value |-> <<>>]
          ELSE [kind |-> "return", value |-> <<>>])

-----------------------------------------------------------------------------
(* Span reconciliation and mentions (extract, steps 6 and 8).               *)
(* A text is a sequence of characters; offsets count from 0, so the         *)
(* character at offset p of txt is txt[p + 1].                              *)

IsSpace(c) == c = " "

RECURSIVE SplitFrom(_, _, _, _)
\* str.split(): the maximal runs of non-whitespace characters
SplitFrom(txt, i, cur, acc) ==
    IF i > Len(txt) THEN (IF cur = <<>> THEN acc ELSE Append(acc, cur))
    ELSE IF IsSpace(txt[i])
         THEN SplitFrom(txt, i + 1, <<>>, IF cur = <<>> THEN acc ELSE Append(acc, cur))
         ELSE SplitFrom(txt, i + 1, Append(cur, txt[i]), acc)

Split(txt) == SplitFrom(txt, 1, <<>>, <<>>)

\* the literal word at offset p of txt
MatchLiteral(word, txt, p) ==
    /\ p + Len(word) <= Len(txt)
    /\ \A k \in 1..Len(word) : txt[p + k] = word[k]

RECURSIVE SkipSpaces(_, _)
\* \s+ is greedy: the offset after the run of whitespace that starts at p
SkipSpaces(txt, p) ==
    IF p < Len(txt) /\ IsSpace(txt[p + 1]) THEN SkipSpaces(txt, p + 1) ELSE p

RECURSIVE MatchParts(_, _, _, _)
\* r"\s+".join(parts) matched at offset p: the end offset, or -1
MatchParts(parts, i, txt, p) ==
    IF ~MatchLiteral(parts[i], txt, p) THEN -1
    ELSE LET q == p + Len(parts[i])
         IN  IF i = Len(parts) THEN q
             ELSE IF q < Len(txt) /\ IsSpace(txt[q + 1])
                  THEN MatchParts(parts, i + 1, txt, SkipSpaces(txt, q))
                  ELSE -1

\* re.search(flexible_pattern, text[pos:]) with pos added back: the leftmost
\* match at or after pos
re_search(parts, txt, pos) ==
    LET starts == { p \in pos..Len(txt) : MatchParts(parts, 1, txt, p) # -1 }
    IN  IF starts = {} THEN [found |-> FALSE, start |-> -1, end |-> -1]
        ELSE LET p == CHOOSE x \in starts : \A y \in starts : x <= y
             IN  [found |-> TRUE, start |-> p, end |-> MatchParts(parts, 1, txt, p)]

Chunk(text, start_char_idx, end_char_idx) ==
    [text |-> text, start_char_idx |-> start_char_idx, end_char_idx |-> end_char_idx]

RECURSIVE RelocateFrom(_, _, _, _)
\* "for chunk in chunks: if chunk.start_char_idx <= 0: ..." with
\* current_search_pos = pos; the chunks are updated in place
RelocateFrom(chunks, i, pos, txt) ==
    IF i > Len(chunks) THEN chunks
    ELSE IF chunks[i].start_char_idx > 0 THEN RelocateFrom(chunks, i + 1, pos, txt)
    ELSE LET parts == Split(chunks[i].text)
         IN  IF parts = <<>> THEN RelocateFrom(chunks, i + 1, pos, txt)
             ELSE LET match == re_search(parts, txt, pos)
                      match_global == re_search(parts, txt, 0)
                  IN  IF match.found
                      THEN RelocateFrom(
                               [chunks EXCEPT ![i].start_char_idx = match.start,
                                              ![i].end_char_idx = match.end],
                               i + 1, match.start + 1, txt)
                      ELSE IF match_global.found
                      THEN RelocateFrom(
                               [chunks EXCEPT ![i].start_char_idx = match_global.start,
                                              ![i].end_char_idx = match_global.end],
                               i + 1, pos, txt)
                      ELSE RelocateFrom(chunks, i + 1, pos, txt)

\* "if chunks: current_search_pos = 0; for chunk in chunks: ..."
RelocateChunks(chunks, txt) == RelocateFrom(chunks, 1, 0, txt)

\* "chunk.start_char_idx != -1 and chunk.start_char_idx <= obj.span_start <= chunk.end_char_idx"
ChunkHolds(chunk, s) ==
    /\ chunk.start_char_idx # -1
    /\ chunk.start_char_idx <= s
    /\ s <= chunk.end_char_idx

\* mutant: the end of the chunk is not compared
ResolveSpan_noend(obj, chunks, span_id) ==
    IF chunks # <<>> /\ obj.span_start # None
       /\ \E i \in 1..Len(chunks) : chunks[i].start_char_idx <= TheValue(obj.span_start)
    THEN SpanId((CHOOSE i \in 1..Len(chunks) :
                    /\ chunks[i].start_char_idx <= TheValue(obj.span_start)
                    /\ \A j \in 1..(i - 1) :
                          ~(chunks[j].start_char_idx <= TheValue(obj.span_start))) - 1)
    ELSE span_id

\* resolved_span_id: the first chunk that holds span_start, else the default
ResolveSpan(obj, chunks, span_id) ==
    IF chunks # <<>> /\ obj.span_start # None
       /\ \E i \in 1..Len(chunks) : ChunkHolds(chunks[i], TheValue(obj.span_start))
    THEN SpanId((CHOOSE i \in 1..Len(chunks) :
                    /\ ChunkHolds(chunks[i], TheValue(obj.span_start))
                    /\ \A j \in 1..(i - 1) :
                          ~ChunkHolds(chunks[j], TheValue(obj.span_start))) - 1)
    ELSE span_id

ObjectMention(object_id, note_id, span_id, role, confidence) ==
    [object_id |-> object_id, note_id |-> note_id, span_id |-> span_id,
     role |-> role, confidence |-> confidence]

\* mutant: a mention only for an object whose span was resolved to a chunk
BuildMentions_resolved(objs, chunks, note_id, span_id) ==
    LET kept == SelectSeq(objs, LAMBDA o : ResolveSpan(o, chunks, span_id) # span_id)
    IN  [i \in 1..Len(kept) |->
            ObjectMention(kept[i].id, note_id, ResolveSpan(kept[i], chunks, span_id),
                          "primary", kept[i].confidence)]

\* "for obj in all_objects: mentions.append(ObjectMention(...))"
BuildMentions(objs, chunks, note_id, span_id) ==
    [i \in 1..Len(objs) |->
        ObjectMention(objs[i].id, note_id, ResolveSpan(objs[i], chunks, span_id),
                      "primary", objs[i].confidence)]

ExtractionResult(objects, links, mentions) ==
    [objects |-> objects, links |-> links, mentions |-> mentions]

-----------------------------------------------------------------------------
(* Initial values of each component; a specification that does not run a    *)
(* component leaves it at these values.                                     *)

DedupOff ==
    /\ dd_stage = "off"
    /\ dd_in = <<>>
    /\ dd_out = <<>>
    /\ dd_twice = <<>>

NoArgs == [text |-> <<>>, note_id |-> "", span_id |-> "", chunks |-> <<>>]

\* LLMExtractor.__init__: both simulated tables start empty
ExtractorInit ==
    /\ pc = "idle"
    /\ is_retry = FALSE
    /\ svc_log = <<>>
    /\ ex_args = NoArgs
    /\ ex_chunks = <<>>
    /\ all_objects = <<>>
    /\ ex_result = {}
    /\ objects_table = <<>>
    /\ links_table = <<>>

\* KnowledgeGraph.__init__: an empty nx.DiGraph
GraphInit ==
    /\ g_nodes = <<>>
    /\ g_edges = <<>>
    /\ g_last = [op |-> "init"]

\* a spans row; its text column is text[start_char:end_char] and is left out
SpanRow(note_id, chunk_index, start_char, end_char, token_count) ==
    [note_id |-> note_id, chunk_index |-> chunk_index, start_char |-> start_char,
     end_char |-> end_char, token_count |-> token_count]

\* the note chunk_text_task is called for, and another note of the database
TheNote == 1
OtherNote == 2
OtherNoteRows == <<SpanRow(OtherNote, 0, 0, 9, 3), SpanRow(OtherNote, 1, 6, 14, 3)>>

NoSegArgs == [note_id |-> 0, window_size |-> 0, overlap |-> 0, min_tokens |-> 0]

\* the database before any chunking: the note is extracted and has no spans
DatabaseInit ==
    /\ note_status = "extracted"
    /\ spans_table = OtherNoteRows
    /\ seg_pc = "idle"
    /\ seg_args = NoSegArgs
    /\ spans = <<>>
    /\ seg_ret = [kind |-> "none"]
    /\ seg_before = [status |-> "extracted", rows |-> OtherNoteRows,
                     chunked_by |-> <<>>]

SegOff ==
    /\ note_sents = <<>>
    /\ DatabaseInit

\* HybridSearchEngine.__init__() with no arguments: an empty index
SearchOff ==
    /\ sr_chunks = <<>>
    /\ sr_embed = FALSE
    /\ sr_graph = FALSE
    /\ sr_last = [op |-> "init"]
    /\ ts_last = [op |-> "init"]

-----------------------------------------------------------------------------
(* SpecDedup: _deduplicate_objects applied to a list and to its own output. *)

InitDedup ==
    /\ dd_stage = "input"
    /\ dd_in \in DedupInputs
    /\ dd_out = <<>>
    /\ dd_twice = <<>>
    /\ ExtractorInit
    /\ GraphInit
    /\ SegOff
    /\ SearchOff

DedupOnce ==
    /\ dd_stage = "input"
    /\ dd_out' = _deduplicate_objects(dd_in)
    /\ dd_stage' = "once"
    /\ UNCHANGED <<dd_in, dd_twice, exVars, gVars, segVars, srVars>>

DedupTwice ==
    /\ dd_stage = "once"
    /\ dd_twice' = _deduplicate_objects(dd_out)
    /\ dd_stage' = "twice"
    /\ UNCHANGED <<dd_in, dd_out, exVars, gVars, segVars, srVars>>

NextDedup == DedupOnce \/ DedupTwice

SpecDedup == InitDedup /\ [][NextDedup]_vars

-----------------------------------------------------------------------------
(* SpecExtract: one extract() call on a new LLMExtractor, the reasoning     *)
(* service answering each call with any outcome.                            *)

ExText == <<" ", "a", "b", " ", "a", "b">>

NoteIds == {"note_7", "note_8"}
DefaultSpans == {"span_full"}

\* the chunk lists a caller passes (<<>>: chunks=None)
ChunkLists ==
    { <<>>,
      <<Chunk(<<"a", "b">>, -1, -1), Chunk(<<"a", "b">>, -1, -1)>>,
      <<Chunk(<<" ", "a", "b">>, 0, 3)>>,
      <<Chunk(<<"a", "b">>, 1, 3), Chunk(<<"a", "b">>, 4, 6)>>,
      <<Chunk(<<"b", "b">>, -1, -1), Chunk(<<"b", " ", "a", "b">>, 2, 6)>>,
      <<Chunk(<<"a", "b", " ", " ", "a">>, -1, -1), Chunk(<<"b">>, 5, 6)>>,
      <<Chunk(<<"b">>, -1, -1), Chunk(<<"a", "b", " ", "a", "b">>, -1, -1)>> }

Item(type, text, confidence, span_start) ==
    [type |-> type, text |-> text, confidence |-> confidence, span_start |-> span_start]

I_idea    == Item("Idea", T_4, 15, Some(0))
I_claim   == Item("Claim", T_4upper, 8, None)
I_task    == Item("Task", T_6c, -3, Some(2))
I_claim5  == Item("Claim", T_5, 8, Some(5))
I_lost    == Item("Question", T_6a, 8, Some(-1))
I_invalid == Item("InvalidType", T_4, 8, None)

\* the "objects" arrays the service returns
BatchPayloads ==
    { <<>>,
      <<I_invalid>>,
      <<I_idea>>,
      <<I_claim, I_idea>>,
      <<I_task, I_idea>>,
      <<I_claim5, I_lost>>,
      <<I_claim5, I_invalid, I_task, I_idea>>,
      <<I_claim, I_lost, I_idea, I_claim5>> }

LinkItem(source_id, target_id, type, confidence) ==
    [source_id |-> source_id, target_id |-> target_id, type |-> type,
     confidence |-> confidence]

L_12      == LinkItem("obj_001", "obj_002", "Supports", 9)
L_21      == LinkItem("obj_002", "obj_001", "Contradicts", 15)
L_31      == LinkItem("obj_003", "obj_001", "DependsOn", 5)
L_unknown == LinkItem("obj_001", "obj_009", "Refines", 7)
L_stale   == LinkItem("temp_0", "obj_002", "Causes", 7)
L_invalid == LinkItem("obj_001", "obj_002", "RelatesTo", 7)

\* the "links" arrays the service returns
LinkPayloads ==
    { <<>>,
      <<L_12>>,
      <<L_unknown>>,
      <<L_unknown, L_12>>,
      <<L_12, L_21>>,
      <<L_stale, L_invalid, L_21>>,
      <<L_31, L_unknown, L_12>> }

JsonValues(payloads) ==
    { [k |-> "object", items |-> p] : p \in payloads }
    \cup { [k |-> "object_no_array", items |-> <<>>],
           [k |-> "not_object", items |-> <<>>],
           [k |-> "null", items |-> <<>>] }

\* every outcome of one service call: it raises (an error, a timeout), or
\* returns a body
Outcomes(payloads) ==
    { [out |-> "raise", raw |-> Raw({}, TRUE, [k |-> "null", items |-> <<>>])] }
    \cup { [out |-> "text", raw |-> Raw(d, b, v)] :
             d \in SUBSET Defects, b \in BOOLEAN, v \in JsonValues(payloads) }

InitExtract ==
    /\ ExtractorInit
    /\ DedupOff
    /\ GraphInit
    /\ SegOff
    /\ SearchOff

\* extract(text, note_id, span_id, chunks) is called
StartExtract(text, note_id, span_id, chunks) ==
    /\ pc = "idle"
    /\ pc' = "obj"
    /\ is_retry' = FALSE
    /\ svc_log' = <<>>
    /\ ex_args' = [text |-> text, note_id |-> note_id, span_id |-> span_id,
                   chunks |-> chunks]
    /\ ex_chunks' = chunks
    /\ all_objects' = <<>>
    /\ ex_result' = {}
    /\ UNCHANGED <<objects_table, links_table, ddVars, gVars, segVars, srVars>>

\* extract() from "mentions = []" to its return
Finish(objs, links) ==
    LET chunks == IF ex_chunks # <<>> THEN RelocateChunks(ex_chunks, ex_args.text)
                  ELSE ex_chunks
        mentions == BuildMentions(objs, chunks, ex_args.note_id, ex_args.span_id)
    IN  /\ ex_chunks' = chunks
        /\ objects_table' = objects_table \o objs
        /\ links_table' = links_table \o links
        /\ ex_result' = {ExtractionResult(objs, links, mentions)}
        /\ pc' = "done"

\* mutant: the relationship pass is skipped only when there is no object
SkipsRelationships_empty(objects) == Len(objects) < 1

\* _extract_relationships: "if len(objects) < 2: return []"
SkipsRelationships(objects) == Len(objects) < 2

\* the service answers the call of _extract_batch
ObjectCall(outcome) ==
    /\ pc = "obj"
    /\ svc_log' = Append(svc_log, LogEntry("obj", outcome))
    /\ LET step == PassStep(BatchBody(outcome), is_retry)
       IN  IF step.kind = "retry"
           THEN /\ is_retry' = TRUE
                /\ UNCHANGED <<pc, ex_chunks, all_objects, ex_result,
                               objects_table, links_table>>
           ELSE IF step.value = <<>>
           THEN \* "if not all_objects: return ExtractionResult([], [], [])"
                /\ ex_result' = {ExtractionResult(<<>>, <<>>, <<>>)}
                /\ pc' = "done"
                /\ UNCHANGED <<is_retry, ex_chunks, all_objects,
                               objects_table, links_table>>
           ELSE LET deduped == _deduplicate_objects(step.value)
                IN  /\ all_objects' = deduped
                    /\ is_retry' = FALSE
                    /\ IF SkipsRelationships(deduped)
                       THEN \* _extract_relationships returns [] without a call
                            Finish(deduped, <<>>)
                       ELSE /\ pc' = "rel"
                            /\ UNCHANGED <<ex_chunks, ex_result,
                                           objects_table, links_table>>
    /\ UNCHANGED <<ex_args, ddVars, gVars, segVars, srVars>>

\* the service answers the call of _extract_relationships
RelationshipCall(outcome) ==
    /\ pc = "rel"
    /\ svc_log' = Append(svc_log, LogEntry("rel", outcome))
    /\ LET step == PassStep(RelBody(outcome, all_objects), is_retry)
       IN  IF step.kind = "retry"
           THEN /\ is_retry' = TRUE
                /\ UNCHANGED <<pc, ex_chunks, ex_result, objects_table, links_table>>
           ELSE /\ Finish(all_objects, step.value)
                /\ UNCHANGED is_retry
    /\ UNCHANGED <<ex_args, all_objects, ddVars, gVars, segVars, srVars>>

NextExtract ==
    \/ \E n \in NoteIds, d \in DefaultSpans, c \in ChunkLists :
          StartExtract(ExText, n, d, c)
    \/ \E o \in Outcomes(BatchPayloads) : ObjectCall(o)
    \/ \E o \in Outcomes(LinkPayloads) : RelationshipCall(o)

SpecExtract == InitExtract /\ [][NextExtract]_vars

-----------------------------------------------------------------------------
(* SpecExtractRepeat: extract() called again on the same LLMExtractor; the  *)
(* tables of the extractor keep the rows of the earlier calls.              *)

\* a further call is started while the objects table holds this many rows
\* at most
MaxSaved == 2

RepeatBatchPayloads == { <<>>, <<I_idea>>, <<I_task, I_idea>> }
RepeatLinkPayloads == { <<>>, <<L_12>>, <<L_unknown, L_12>> }

\* the outcomes of a service call: it raises, or answers strict JSON
RepeatOutcomes(payloads) ==
    { [out |-> "raise", raw |-> Raw({}, TRUE, [k |-> "null", items |-> <<>>])] }
    \cup { [out |-> "text", raw |-> Raw({}, FALSE, v)] : v \in JsonValues(payloads) }

\* extract(text, note_id, span_id, chunks) is called after an earlier call
\* has returned
StartExtractAgain(text, note_id, span_id, chunks) ==
    /\ pc = "done"
    /\ Len(objects_table) <= MaxSaved
    /\ pc' = "obj"
    /\ is_retry' = FALSE
    /\ svc_log' = <<>>
    /\ ex_args' = [text |-> text, note_id |-> note_id, span_id |-> span_id,
                   chunks |-> chunks]
    /\ ex_chunks' = chunks
    /\ all_objects' = <<>>
    /\ ex_result' = {}
    /\ UNCHANGED <<objects_table, links_table, ddVars, gVars, segVars, srVars>>

NextExtractRepeat ==
    \/ \E n \in NoteIds, d \in DefaultSpans : StartExtract(ExText, n, d, <<>>)
    \/ \E n \in NoteIds, d \in DefaultSpans : StartExtractAgain(ExText, n, d, <<>>)
    \/ \E o \in RepeatOutcomes(RepeatBatchPayloads) : ObjectCall(o)
    \/ \E o \in RepeatOutcomes(RepeatLinkPayloads) : RelationshipCall(o)

SpecExtractRepeat == InitExtract /\ [][NextExtractRepeat]_vars

-----------------------------------------------------------------------------
(* KnowledgeGraph over nx.DiGraph.  The nodes are a function from node id   *)
(* to the node's attribute dict, the edges a function from <<u, v>> to the  *)
(* edge's attribute dict: a DiGraph holds at most one edge per ordered      *)
(* pair.  A dict is a function from its keys; d1 @@ d2 is d2 updated by d1. *)

\* node_data of add_objects: the three fields, then "attributes" and its
\* items under the keys node_data does not hold yet
NodeData(obj) ==
    LET base == [type |-> obj.type, canonical_text |-> obj.canonical_text,
                 confidence |-> obj.confidence]
    IN  IF obj.attributes = <<>> THEN base
        ELSE LET with_attrs == ("attributes" :> obj.attributes) @@ base
                 flat == [k \in DOMAIN obj.attributes \ DOMAIN with_attrs |->
                             obj.attributes[k]]
             IN  flat @@ with_attrs

HasNode(nodes, n) == n \in DOMAIN nodes

\* nx add_node(n, **attr): a new node, or the attribute dict of n updated
AddNode(nodes, n, attr) ==
    IF HasNode(nodes, n) THEN [nodes EXCEPT ![n] = attr @@ nodes[n]]
    ELSE (n :> attr) @@ nodes

\* nx add_edge(u, v, **attr): both nodes added when missing; a new edge, or
\* the attribute dict of the edge u -> v updated
AddEdge(g, u, v, attr) ==
    LET nodes1 == IF HasNode(g.nodes, u) THEN g.nodes ELSE (u :> <<>>) @@ g.nodes
        nodes2 == IF HasNode(nodes1, v) THEN nodes1 ELSE (v :> <<>>) @@ nodes1
    IN  [nodes |-> nodes2,
         edges |-> IF <<u, v>> \in DOMAIN g.edges
                   THEN [g.edges EXCEPT ![<<u, v>>] = attr @@ g.edges[<<u, v>>]]
                   ELSE (<<u, v>> :> attr) @@ g.edges]

RECURSIVE AddObjectsFrom(_, _, _)
\* add_objects: "for obj in objects: self.graph.add_node(obj.id, **node_data)"
AddObjectsFrom(nodes, objs, i) ==
    IF i > Len(objs) THEN nodes
    ELSE AddObjectsFrom(AddNode(nodes, objs[i].id, NodeData(objs[i])), objs, i + 1)

\* mutant: add_edge without the has_node test
LinkEdge_unguarded(g, source_id, target_id, attr) ==
    AddEdge(g, source_id, target_id, attr)

\* "if has_node(source) and has_node(target): add_edge(...)" of add_links and
\* of attach_note_to_tasks
LinkEdge(g, source_id, target_id, attr) ==
    IF HasNode(g.nodes, source_id) /\ HasNode(g.nodes, target_id)
    THEN AddEdge(g, source_id, target_id, attr)
    ELSE g

RECURSIVE AddLinksFrom(_, _, _)
\* add_links: "for link in links: ..."
AddLinksFrom(g, links, i) ==
    IF i > Len(links) THEN g
    ELSE AddLinksFrom(
             LinkEdge(g, links[i].source_id, links[i].target_id,
                      [type |-> links[i].type, confidence |-> links[i].confidence]),
             links, i + 1)

RECURSIVE AttachFrom(_, _, _, _, _)
\* attach_note_to_tasks: "for tid in task_ids: if has_node(tid): add_edge(...)"
AttachFrom(g, note_object_id, task_ids, confidence, i) ==
    IF i > Len(task_ids) THEN g
    ELSE AttachFrom(
             LinkEdge(g, note_object_id, task_ids[i],
                      [type |-> "Refines", confidence |-> confidence]),
             note_object_id, task_ids, confidence, i + 1)

\* successors of the nodes of a frontier
Successors(edges, frontier) ==
    { e[2] : e \in { d \in DOMAIN edges : d[1] \in frontier } }

RECURSIVE ShortestPathNodes(_, _, _, _)
\* nx.single_source_shortest_path_length(G, source, cutoff).keys(): breadth
\* first by levels, stopping when the level reaches cutoff or nothing is new
ShortestPathNodes(edges, seen, frontier, cutoff) ==
    IF cutoff <= 0 \/ frontier = {} THEN seen
    ELSE LET next == Successors(edges, frontier) \ seen
         IN  ShortestPathNodes(edges, seen \cup next, next, cutoff - 1)

\* self.graph.predecessors(node_id)
Predecessors(edges, n) == { e[1] : e \in { d \in DOMAIN edges : d[2] = n } }

\* mutant: the downstream nodes only
SubgraphNodes_downstream(g, node_id, depth) ==
    ShortestPathNodes(g.edges, {node_id}, {node_id}, depth)

\* subgraph_nodes of get_subgraph
SubgraphNodes(g, node_id, depth) ==
    ShortestPathNodes(g.edges, {node_id}, {node_id}, depth)
        \cup Predecessors(g.edges, node_id)

\* nx.node_link_data(self.graph.subgraph(subgraph_nodes)): the nodes with
\* their attributes and the edges between them with theirs
NodeLinkData(g, keep) ==
    [nodes |-> { [id |-> n, data |-> g.nodes[n]] : n \in keep },
     links |-> { [source |-> e[1], target |-> e[2], data |-> g.edges[e]] :
                   e \in { d \in DOMAIN g.edges : d[1] \in keep /\ d[2] \in keep } }]

\* get_subgraph(node_id, depth)
GetSubgraph(g, node_id, depth) ==
    IF ~HasNode(g.nodes, node_id) THEN [nodes |-> {}, links |-> {}]
    ELSE NodeLinkData(g, SubgraphNodes(g, node_id, depth))

-----------------------------------------------------------------------------
(* SpecGraph: calls on one KnowledgeGraph.                                  *)

MaxGraphCalls == 3
MaxDepth == 2

GraphObject(id, type, text, conf, attributes) ==
    [id |-> id, type |-> type, canonical_text |-> text,
     confidence |-> clamp_confidence(conf), attributes |-> attributes]

G_idea  == GraphObject("obj_001", "Idea", T_4, 10, <<>>)
G_task  == GraphObject("obj_002", "Task", T_5, 8, [due_date |-> "2026-02-20"])
G_task2 == GraphObject("obj_002", "Task", T_6a, 5, [note_id |-> "note_7"])
G_claim == GraphObject("obj_003", "Claim", T_4, 9, <<>>)

ObjectLists ==
    { <<>>, <<G_idea>>, <<G_task>>, <<G_task2>>, <<G_claim>>,
      <<G_idea, G_task>>, <<G_task, G_task2>>, <<G_claim, G_task, G_idea>> }

K_12s == Link("obj_001", "obj_002", "Supports", 9)
K_12c == Link("obj_001", "obj_002", "Contradicts", 7)
K_21  == Link("obj_002", "obj_001", "Refines", 8)
K_23  == Link("obj_002", "obj_003", "DependsOn", 6)
K_19  == Link("obj_001", "obj_009", "Causes", 7)
K_93  == Link("obj_009", "obj_003", "SameAs", 7)

LinkLists ==
    { <<>>, <<K_12s>>, <<K_12c>>, <<K_12s, K_12c>>, <<K_19, K_21>>,
      <<K_93>>, <<K_23, K_19>>, <<K_93, K_12c, K_23>> }

AttachCalls ==
    { [note |-> "obj_001", task_ids |-> <<"obj_002", "obj_009">>],
      [note |-> "obj_001", task_ids |-> <<"obj_009">>],
      [note |-> "obj_009", task_ids |-> <<"obj_001", "obj_002">>],
      [note |-> "obj_003", task_ids |-> <<"obj_001", "obj_002">>],
      [note |-> "obj_002", task_ids |-> <<>>] }

\* node ids and depths get_subgraph is asked about
QueryIds == {"obj_001", "obj_002", "obj_003", "obj_009"}
Depths == 0..MaxDepth

Graph == [nodes |-> g_nodes, edges |-> g_edges]

InitGraph ==
    /\ GraphInit
    /\ DedupOff
    /\ ExtractorInit
    /\ SegOff
    /\ SearchOff

\* the calls made on the graph so far
GraphCalls == IF g_last.op = "init" THEN 0 ELSE g_last.calls

Before(op, arg) ==
    [op |-> op, arg |-> arg, nodes |-> g_nodes, edges |-> g_edges,
     calls |-> GraphCalls + 1]

add_objects(objects) ==
    /\ GraphCalls < MaxGraphCalls
    /\ g_nodes' = AddObjectsFrom(g_nodes, objects, 1)
    /\ g_last' = Before("add_objects", objects)
    /\ UNCHANGED <<g_edges, ddVars, exVars, segVars, srVars>>

add_links(links) ==
    /\ GraphCalls < MaxGraphCalls
    /\ LET g == AddLinksFrom(Graph, links, 1)
       IN  /\ g_nodes' = g.nodes
           /\ g_edges' = g.edges
    /\ g_last' = Before("add_links", links)
    /\ UNCHANGED <<ddVars, exVars, segVars, srVars>>

\* attach_note_to_tasks(note_object_id, task_ids, confidence=0.9)
attach_note_to_tasks(note_object_id, task_ids) ==
    /\ GraphCalls < MaxGraphCalls
    /\ LET g == IF ~HasNode(g_nodes, note_object_id) THEN Graph
                ELSE AttachFrom(Graph, note_object_id, task_ids, 9, 1)
       IN  /\ g_nodes' = g.nodes
           /\ g_edges' = g.edges
    /\ g_last' = Before("attach_note_to_tasks",
                        [note |-> note_object_id, task_ids |-> task_ids])
    /\ UNCHANGED <<ddVars, exVars, segVars, srVars>>

\* get_subgraph(node_id, depth): the graph is read, the snapshot returned
get_subgraph(node_id, depth) ==
    /\ GraphCalls < MaxGraphCalls
    /\ g_last' = [Before("get_subgraph", [node_id |-> node_id, depth |-> depth])
                     EXCEPT !.arg = [node_id |-> node_id, depth |-> depth,
                                     result |-> GetSubgraph(Graph, node_id, depth)]]
    /\ UNCHANGED <<g_nodes, g_edges, ddVars, exVars, segVars, srVars>>

NextGraph ==
    \/ \E objects \in ObjectLists : add_objects(objects)
    \/ \E links \in LinkLists : add_links(links)
    \/ \E c \in AttachCalls : attach_note_to_tasks(c.note, c.task_ids)
    \/ \E n \in QueryIds, depth \in Depths : get_subgraph(n, depth)

SpecGraph == InitGraph /\ [][NextGraph]_vars

-----------------------------------------------------------------------------
(* chunk_text_task (src/ml/tasks.py) over the notes database (src/ml/db.py). *)
(* The text of the note is given by its sentences as the sentence splitter   *)
(* and the tokenizer see them: one token count per sentence of doc.sents.    *)
(* A sentence of t tokens is taken to be 3 * t + 1 characters long and to be *)
(* followed by one blank.  Indices are 0-based as in the code.               *)

MaxSents == 3
MaxTok == 3

RECURSIVE StartChar(_, _)
\* sent.start_char of the k-th sentence of doc.sents (k from 1)
StartChar(tokens, k) ==
    IF k = 1 THEN 0 ELSE StartChar(tokens, k - 1) + 3 * tokens[k - 1] + 2

\* the sentences list: "if token_count == 0: continue"
Sentences(tokens) ==
    SelectSeq([k \in 1..Len(tokens) |->
                  [start_char |-> StartChar(tokens, k),
                   end_char |-> StartChar(tokens, k) + 3 * tokens[k] + 1,
                   token_count |-> tokens[k]]],
              LAMBDA sent : sent.token_count # 0)

RECURSIVE PrefixTokens(_, _)
\* prefix_tokens[i]
PrefixTokens(sentences, i) ==
    IF i = 0 THEN 0 ELSE PrefixTokens(sentences, i - 1) + sentences[i].token_count

RECURSIVE PackWindow_nobreak(_, _, _, _, _)
\* mutant: the window is never closed before the last sentence
PackWindow_nobreak(sentences, end_idx, current_tokens, window_size, min_tokens) ==
    IF end_idx >= Len(sentences)
    THEN [end_idx |-> end_idx, current_tokens |-> current_tokens]
    ELSE PackWindow_nobreak(sentences, end_idx + 1,
                            current_tokens + sentences[end_idx + 1].token_count,
                            window_size, min_tokens)

RECURSIVE PackWindow(_, _, _, _, _)
\* "while end_idx < len(sentences): ..." of one window
PackWindow(sentences, end_idx, current_tokens, window_size, min_tokens) ==
    IF end_idx >= Len(sentences)
    THEN [end_idx |-> end_idx, current_tokens |-> current_tokens]
    ELSE LET next_tokens == current_tokens + sentences[end_idx + 1].token_count
         IN  IF next_tokens > window_size /\ current_tokens >= min_tokens
             THEN [end_idx |-> end_idx, current_tokens |-> current_tokens]
             ELSE PackWindow(sentences, end_idx + 1, next_tokens,
                             window_size, min_tokens)

\* the window from start_idx, with "if end_idx == start_idx: ..."
Window(sentences, start_idx, window_size, min_tokens) ==
    LET w == PackWindow(sentences, start_idx, 0, window_size, min_tokens)
    IN  IF w.end_idx = start_idx
        THEN [end_idx |-> Min(start_idx + 1, Len(sentences)),
              current_tokens |-> sentences[start_idx + 1].token_count]
        ELSE w

RECURSIVE AdvanceFrom(_, _, _)
\* "while next_idx < len(prefix_tokens) and prefix_tokens[next_idx] <
\* target_token: next_idx += 1"
AdvanceFrom(sentences, next_idx, target_token) ==
    IF next_idx < Len(sentences) + 1
          /\ PrefixTokens(sentences, next_idx) < target_token
    THEN AdvanceFrom(sentences, next_idx + 1, target_token)
    ELSE next_idx

\* mutant: the next window starts where this one started
NextStart_staying(sentences, start_idx, end_idx, current_tokens) == start_idx

\* mutant: the next window starts one sentence after the end of this one
NextStart_skipping(sentences, start_idx, end_idx, current_tokens) ==
    Min(end_idx + 1, Len(sentences))

\* the next start_idx; int(current_tokens * 0.9) is floor(9 * n / 10)
NextStart(sentences, start_idx, end_idx, current_tokens) ==
    LET step_tokens == Max(1, (current_tokens * 9) \div 10)
        target_token == PrefixTokens(sentences, start_idx) + step_tokens
    IN  Min(AdvanceFrom(sentences, start_idx + 1, target_token), Len(sentences))

RECURSIVE ChunkLoop(_, _, _, _, _, _)
\* "while start_idx < len(sentences): ..." of chunk_text_task
ChunkLoop(sentences, start_idx, chunk_index, out, window_size, min_tokens) ==
    IF start_idx >= Len(sentences) THEN out
    ELSE LET w == Window(sentences, start_idx, window_size, min_tokens)
             span == [chunk_index |-> chunk_index,
                      start_char |-> sentences[start_idx + 1].start_char,
                      end_char |-> sentences[w.end_idx].end_char,
                      token_count |-> w.current_tokens]
         IN  ChunkLoop(sentences,
                       NextStart(sentences, start_idx, w.end_idx, w.current_tokens),
                       chunk_index + 1, Append(out, span), window_size, min_tokens)

\* the spans list chunk_text_task builds for the sentences
ChunkSpans(sentences, window_size, min_tokens) ==
    ChunkLoop(sentences, 0, 0, <<>>, window_size, min_tokens)

\* the parameters on which _window_ranges raises ValueError; chunk_text_task
\* does not call _window_ranges
WindowRangesRaises(window_size, overlap) ==
    window_size <= 0 \/ overlap < 0 \/ overlap >= window_size

\* mutant: the rows of the note are kept
delete_spans_keeping(rows, note_id) == rows

\* delete_spans(note_id)
delete_spans(rows, note_id) == SelectSeq(rows, LAMBDA r : r.note_id # note_id)

\* insert_spans(note_id, spans)
insert_spans(rows, note_id, new) ==
    rows \o [k \in 1..Len(new) |->
               SpanRow(note_id, new[k].chunk_index, new[k].start_char,
                       new[k].end_char, new[k].token_count)]

-----------------------------------------------------------------------------
(* SpecSegment: chunk_text_task called again and again for one note, every   *)
(* database write a step of its own.                                         *)

SegArgs(window_size, overlap, min_tokens) ==
    [note_id |-> TheNote, window_size |-> window_size, overlap |-> overlap,
     min_tokens |-> min_tokens]

\* the parameters chunk_text_task is called with
SegParams ==
    { SegArgs(3, 1, 2), SegArgs(3, 0, 0), SegArgs(2, 1, 1), SegArgs(1, 0, 0),
      SegArgs(4, 1, 3),
      SegArgs(0, 0, 0), SegArgs(-1, 0, 2), SegArgs(3, -1, 1), SegArgs(3, 3, 2) }

InitSegment ==
    /\ note_sents \in SeqsUpTo(0..MaxTok, MaxSents)
    /\ DatabaseInit
    /\ DedupOff
    /\ ExtractorInit
    /\ GraphInit
    /\ SearchOff

\* chunk_text_task up to its first database write: the note is read, the
\* text split into sentences and the spans list built
chunk_text_task(args, spacy_installed) ==
    /\ seg_pc = "idle"
    /\ seg_args' = args
    /\ seg_before' = [status |-> note_status, rows |-> spans_table,
                      chunked_by |-> seg_before.chunked_by]
    /\ IF note_sents = <<>>
       THEN /\ seg_pc' = "update_empty"
            /\ seg_ret' = [kind |-> "running"]
            /\ spans' = <<>>
       ELSE IF ~spacy_installed
       THEN /\ seg_pc' = "idle"
            /\ seg_ret' = [kind |-> "raised", error |-> "RuntimeError"]
            /\ spans' = <<>>
       ELSE IF Sentences(note_sents) = <<>>
       THEN /\ seg_pc' = "update_empty"
            /\ seg_ret' = [kind |-> "running"]
            /\ spans' = <<>>
       ELSE /\ seg_pc' = "delete"
            /\ seg_ret' = [kind |-> "running"]
            /\ spans' = ChunkSpans(Sentences(note_sents), args.window_size,
                                   args.min_tokens)
    /\ UNCHANGED <<note_sents, note_status, spans_table, ddVars, exVars, gVars, srVars>>

\* "update_note(note_id, status='chunked')" of the two early returns
UpdateNoteEmpty ==
    /\ seg_pc = "update_empty"
    /\ note_status' = "chunked"
    /\ seg_before' = [seg_before EXCEPT !.chunked_by = spans]
    /\ seg_pc' = "delete_empty"
    /\ UNCHANGED <<note_sents, spans_table, seg_args, spans, seg_ret,
                   ddVars, exVars, gVars, srVars>>

\* "delete_spans(note_id); return 0" of the two early returns
DeleteSpansEmpty ==
    /\ seg_pc = "delete_empty"
    /\ spans_table' = delete_spans(spans_table, seg_args.note_id)
    /\ seg_ret' = [kind |-> "returned", value |-> 0]
    /\ seg_pc' = "idle"
    /\ UNCHANGED <<note_sents, note_status, seg_args, spans, seg_before,
                   ddVars, exVars, gVars, srVars>>

\* "delete_spans(note_id)" after the loop
DeleteSpans ==
    /\ seg_pc = "delete"
    /\ spans_table' = delete_spans(spans_table, seg_args.note_id)
    /\ seg_pc' = "insert"
    /\ UNCHANGED <<note_sents, note_status, seg_args, spans, seg_ret, seg_before,
                   ddVars, exVars, gVars, srVars>>

\* "insert_spans(note_id, spans)"
InsertSpans ==
    /\ seg_pc = "insert"
    /\ spans_table' = insert_spans(spans_table, seg_args.note_id, spans)
    /\ seg_pc' = "update"
    /\ UNCHANGED <<note_sents, note_status, seg_args, spans, seg_ret, seg_before,
                   ddVars, exVars, gVars, srVars>>

\* "update_note(note_id, status='chunked')", the chunks file (the same
\* records, written to the derived directory) and "return len(spans)"
UpdateNote ==
    /\ seg_pc = "update"
    /\ note_status' = "chunked"
    /\ seg_before' = [seg_before EXCEPT !.chunked_by = spans]
    /\ seg_ret' = [kind |-> "returned", value |-> Len(spans)]
    /\ seg_pc' = "idle"
    /\ UNCHANGED <<note_sents, spans_table, seg_args, spans,
                   ddVars, exVars, gVars, srVars>>

NextSegment ==
    \/ \E args \in SegParams, spacy_installed \in BOOLEAN :
          chunk_text_task(args, spacy_installed)
    \/ UpdateNoteEmpty
    \/ DeleteSpansEmpty
    \/ DeleteSpans
    \/ InsertSpans
    \/ UpdateNote

SpecSegment == InitSegment /\ [][NextSegment]_vars

-----------------------------------------------------------------------------
(* SpecSegmentLoop: the same calls with every iteration of the loop          *)
(* "while start_idx < len(sentences)" a step of its own.  While the call is  *)
(* in the loop, seg_ret holds its locals start_idx and chunk_index.          *)

\* the parameters of the calls: windows of one to four tokens, a window_size
\* of zero and a negative one, and a min_tokens above the window_size
LoopParams ==
    { SegArgs(3, 1, 2), SegArgs(1, 0, 0), SegArgs(4, 1, 3), SegArgs(0, 0, 0),
      SegArgs(-1, 0, 2) }

\* chunk_text_task from its call to the first test of the loop condition
EnterLoop(args, spacy_installed) ==
    /\ seg_pc = "idle"
    /\ seg_args' = args
    /\ seg_before' = [status |-> note_status, rows |-> spans_table,
                      chunked_by |-> seg_before.chunked_by]
    /\ spans' = <<>>
    /\ IF note_sents = <<>>
       THEN /\ seg_pc' = "update_empty"
            /\ seg_ret' = [kind |-> "running"]
       ELSE IF ~spacy_installed
       THEN /\ seg_pc' = "idle"
            /\ seg_ret' = [kind |-> "raised", error |-> "RuntimeError"]
       ELSE IF Sentences(note_sents) = <<>>
       THEN /\ seg_pc' = "update_empty"
            /\ seg_ret' = [kind |-> "running"]
       ELSE /\ seg_pc' = "loop"
            /\ seg_ret' = [kind |-> "running", start_idx |-> 0, chunk_index |-> 0]
    /\ UNCHANGED <<note_sents, note_status, spans_table, ddVars, exVars, gVars, srVars>>

\* one iteration of the loop: a window is packed, its span appended, and
\* start_idx and chunk_index advanced
LoopStep ==
    /\ seg_pc = "loop"
    /\ seg_ret.start_idx < Len(Sentences(note_sents))
    /\ LET sentences == Sentences(note_sents)
           start_idx == seg_ret.start_idx
           w == Window(sentences, start_idx, seg_args.window_size, seg_args.min_tokens)
       IN  /\ spans' = Append(spans,
                          [chunk_index |-> seg_ret.chunk_index,
                           start_char |-> sentences[start_idx + 1].start_char,
                           end_char |-> sentences[w.end_idx].end_char,
                           token_count |-> w.current_tokens])
           /\ seg_ret' = [kind |-> "running",
                          start_idx |-> NextStart(sentences, start_idx, w.end_idx,
                                                  w.current_tokens),
                          chunk_index |-> seg_ret.chunk_index + 1]
    /\ UNCHANGED <<note_sents, note_status, spans_table, seg_pc, seg_args, seg_before,
                   ddVars, exVars, gVars, srVars>>

\* the loop condition is false: on to "delete_spans(note_id)"
LoopExit ==
    /\ seg_pc = "loop"
    /\ seg_ret.start_idx >= Len(Sentences(note_sents))
    /\ seg_pc' = "delete"
    /\ seg_ret' = [kind |-> "running"]
    /\ UNCHANGED <<note_sents, note_status, spans_table, seg_args, spans, seg_before,
                   ddVars, exVars, gVars, srVars>>

NextSegmentLoop ==
    \/ \E args \in LoopParams, spacy_installed \in BOOLEAN :
          EnterLoop(args, spacy_installed)
    \/ LoopStep
    \/ LoopExit
    \/ UpdateNoteEmpty
    \/ DeleteSpansEmpty
    \/ DeleteSpans
    \/ InsertSpans
    \/ UpdateNote

\* a call that has started is run to its end
SpecSegmentLoop ==
    /\ InitSegment
    /\ [][NextSegmentLoop]_vars
    /\ WF_vars(LoopStep)
    /\ WF_vars(LoopExit)

-----------------------------------------------------------------------------
(* HybridSearchEngine (src/ml/search.py): chunk search.  Texts and queries  *)
(* are sequences of characters; scores are in hundredths (0.15 is 15, the   *)
(* keyword score 10.0 is 1000); vectors are pairs of integers whose norms   *)
(* are integers, so that the cosine is exact.                               *)

LowerChar(c) ==
    CASE c = "A" -> "a" [] c = "B" -> "b" [] c = "C" -> "c" [] c = "O" -> "o"
      [] OTHER -> c

\* str.lower()
str_lower(txt) == [i \in 1..Len(txt) |-> LowerChar(txt[i])]

\* "term in text_lower": term is a substring of txt
IsIn(term, txt) == \E p \in 0..(Len(txt) - Len(term)) : MatchLiteral(term, txt, p)

\* set(query.lower().split())
QueryTerms(query) == Range(Split(str_lower(query)))

SearchResult(chunk_id, text, score, source) ==
    [chunk_id |-> chunk_id, text |-> text, score |-> score, source |-> source]

\* list.sort(key=score, reverse=True) is stable: an element goes behind the
\* elements before it in the list whose score is not lower
InsertByScore(sorted, r) ==
    LET k == Cardinality({ i \in 1..Len(sorted) : sorted[i].score >= r.score })
    IN  SubSeq(sorted, 1, k) \o <<r>> \o SubSeq(sorted, k + 1, Len(sorted))

RECURSIVE SortByScoreFrom(_, _, _)
SortByScoreFrom(results, i, sorted) ==
    IF i > Len(results) THEN sorted
    ELSE SortByScoreFrom(results, i + 1, InsertByScore(sorted, results[i]))

\* results.sort(key=lambda x: x.score, reverse=True)
SortByScore(results) == SortByScoreFrom(results, 1, <<>>)

\* results[:top_k]
Take(results, top_k) == SubSeq(results, 1, Min(top_k, Len(results)))

\* np.linalg.norm of a pair whose norm is an integer
Norm(v) == CHOOSE r \in 0..(v[1] * v[1] + v[2] * v[2]) : r * r = v[1] * v[1] + v[2] * v[2]

\* _safe_cosine, in hundredths
_safe_cosine(a, b) ==
    LET denom == Norm(a) * Norm(b)
    IN  IF denom = 0 THEN 0 ELSE (100 * (a[1] * b[1] + a[2] * b[2])) \div denom

_vector_search(chunks, query_vector, top_k) ==
    IF chunks = <<>> THEN <<>>
    ELSE Take(SortByScore([i \in 1..Len(chunks) |->
                  SearchResult(chunks[i].id, chunks[i].text,
                               _safe_cosine(query_vector, chunks[i].vector),
                               "vector")]),
              top_k)

\* the score of _keyword_search before the boost factor
TermHits(query, text) ==
    Cardinality({ term \in QueryTerms(query) : IsIn(term, str_lower(text)) })

_keyword_search(chunks, query, top_k) ==
    LET hit == SelectSeq(chunks, LAMBDA chunk : TermHits(query, chunk.text) > 0)
    IN  Take(SortByScore([i \in 1..Len(hit) |->
                 SearchResult(hit[i].id, hit[i].text,
                              TermHits(query, hit[i].text) * 10 * 100, "keyword")]),
             top_k)

\* a dict from chunk id to result is the list of its values in the order the
\* keys were inserted
HasKey(combined, chunk_id) ==
    \E i \in 1..Len(combined) : combined[i].chunk_id = chunk_id
KeyIndex(combined, chunk_id) ==
    CHOOSE i \in 1..Len(combined) : combined[i].chunk_id = chunk_id

RECURSIVE DictFrom(_, _, _)
\* "{r.chunk_id: r for r in vector_results}"
DictFrom(vector_results, i, combined) ==
    IF i > Len(vector_results) THEN combined
    ELSE LET r == vector_results[i]
         IN  DictFrom(vector_results, i + 1,
                      IF HasKey(combined, r.chunk_id)
                      THEN [combined EXCEPT ![KeyIndex(combined, r.chunk_id)] = r]
                      ELSE Append(combined, r))

\* mutant: a keyword result whose id is known replaces the entry
FuseOne_replace(combined, res) ==
    IF HasKey(combined, res.chunk_id)
    THEN [combined EXCEPT ![KeyIndex(combined, res.chunk_id)] = res]
    ELSE Append(combined, res)

\* the body of "for res in keyword_results"
FuseOne(combined, res) ==
    IF HasKey(combined, res.chunk_id)
    THEN [combined EXCEPT ![KeyIndex(combined, res.chunk_id)] =
              [@ EXCEPT !.score = @ + res.score, !.source = "hybrid"]]
    ELSE Append(combined, res)

RECURSIVE FuseFrom(_, _, _)
FuseFrom(combined, keyword_results, i) ==
    IF i > Len(keyword_results) THEN combined
    ELSE FuseFrom(FuseOne(combined, keyword_results[i]), keyword_results, i + 1)

\* step 3 of search(): final_results before the graph boost
Fusion(vector_results, keyword_results, top_k) ==
    Take(SortByScore(FuseFrom(DictFrom(vector_results, 1, <<>>), keyword_results, 1)),
         top_k)

\* mutant: the boost drops the results without graph context
BoostOne_dropping(graph, r, lookup_fails) ==
    IF r.chunk_id \notin lookup_fails /\ GetSubgraph(graph, r.chunk_id, 1).nodes # {}
    THEN <<[r EXCEPT !.score = @ + 15,
                     !.source = IF r.source # "hybrid" THEN "graph" ELSE "hybrid"]>>
    ELSE <<>>

\* the body of "for r in results" of _graph_context_boost: the results it
\* appends to boosted; get_subgraph raises for the ids of lookup_fails
BoostOne(graph, r, lookup_fails) ==
    IF r.chunk_id \in lookup_fails THEN <<r>>
    ELSE IF GetSubgraph(graph, r.chunk_id, 1).nodes # {}
         THEN <<[r EXCEPT !.score = @ + 15,
                          !.source = IF r.source # "hybrid" THEN "graph" ELSE "hybrid"]>>
         ELSE <<r>>

RECURSIVE BoostFrom(_, _, _, _, _)
BoostFrom(graph, results, i, boosted, lookup_fails) ==
    IF i > Len(results) THEN boosted
    ELSE BoostFrom(graph, results, i + 1,
                   boosted \o BoostOne(graph, results[i], lookup_fails), lookup_fails)

\* _graph_context_boost(results) with depth=1, boost=0.15
_graph_context_boost(has_graph, graph, results, lookup_fails) ==
    IF ~has_graph THEN results
    ELSE SortByScore(BoostFrom(graph, results, 1, <<>>, lookup_fails))

-----------------------------------------------------------------------------
(* SpecSearch: index_chunk and search on one HybridSearchEngine, built with  *)
(* or without an embedding generator and with or without a graph.            *)

MaxIndexed == 2

X_ab_c  == <<"a", "b", " ", "c">>
X_AB_C  == <<"A", "B", " ", "c">>
X_cab   == <<"c", "a", "b">>
X_ab    == <<"a", "b">>
X_d     == <<"d">>
X_AB    == <<"A", "B">>

IndexArgs(chunk_id, text, vector) ==
    [id |-> chunk_id, text |-> text, vector |-> vector, metadata |-> <<>>]

\* the chunks index_chunk is called with
IndexCalls ==
    { IndexArgs("c1", X_ab_c, <<1, 0>>), IndexArgs("c2", X_cab, <<3, 4>>),
      IndexArgs("c3", X_ab, <<0, 0>>), IndexArgs("c1", X_ab, <<-1, 0>>),
      IndexArgs("c2", X_d, <<0, 1>>), IndexArgs("c3", X_AB_C, <<1, 0>>) }

Queries == {X_ab_c, X_AB}
TopKs == {1, 5}

\* what embedding_generator.model.encode(query) may return
QueryVectors == {<<1, 0>>, <<3, 4>>}

\* the graph of the engine: the chunk c1 is one of its nodes
SearchGraphNodes ==
    AddObjectsFrom(<<>>, <<GraphObject("c1", "Idea", T_4, 9, <<>>)>>, 1)

InitSearch ==
    /\ sr_chunks = <<>>
    /\ sr_embed \in BOOLEAN
    /\ sr_graph \in BOOLEAN
    /\ sr_last = [op |-> "init"]
    /\ ts_last = [op |-> "init"]
    /\ g_nodes = SearchGraphNodes
    /\ g_edges = <<>>
    /\ g_last = [op |-> "init"]
    /\ DedupOff
    /\ ExtractorInit
    /\ SegOff

index_chunk(chunk) ==
    /\ Len(sr_chunks) < MaxIndexed
    /\ sr_chunks' = Append(sr_chunks, chunk)
    /\ sr_last' = [op |-> "index_chunk", chunk_id |-> chunk.id]
    /\ UNCHANGED <<sr_embed, sr_graph, ts_last, ddVars, exVars, gVars, segVars>>

\* search(query, top_k, use_graph_boost); query_vector is what the embedding
\* model answers, lookup_fails the ids for which get_subgraph raises
search(query, top_k, use_graph_boost, query_vector, lookup_fails) ==
    /\ LET vector_results == IF sr_embed
                             THEN _vector_search(sr_chunks, query_vector, top_k)
                             ELSE <<>>
           keyword_results == _keyword_search(sr_chunks, query, top_k)
           fused == Fusion(vector_results, keyword_results, top_k)
           final_results == IF use_graph_boost
                            THEN _graph_context_boost(sr_graph, Graph, fused,
                                                      lookup_fails)
                            ELSE fused
       IN  sr_last' = [op |-> "search", query |-> query, top_k |-> top_k,
                       use_graph_boost |-> use_graph_boost,
                       lookup_fails |-> lookup_fails,
                       vector_results |-> vector_results,
                       keyword_results |-> keyword_results,
                       fused |-> fused, results |-> final_results]
    /\ UNCHANGED <<sr_chunks, sr_embed, sr_graph, ts_last, ddVars, exVars, gVars,
                   segVars>>

NextSearch ==
    \/ \E chunk \in IndexCalls : index_chunk(chunk)
    \/ \E query \in Queries, top_k \in TopKs, use_graph_boost \in BOOLEAN,
          query_vector \in (IF sr_embed THEN QueryVectors ELSE {<<0, 0>>}) :
          \E lookup_fails \in (IF use_graph_boost /\ sr_graph
                               THEN {{}, {"c1"}} ELSE {{}}) :
              search(query, top_k, use_graph_boost, query_vector, lookup_fails)

SpecSearch == InitSearch /\ [][NextSearch]_vars

-----------------------------------------------------------------------------
(* HybridSearchEngine: task search.  A task is a dict; its due_date is      *)
(* absent, the ISO date n days after today (IsoDate(n)), or a string that   *)
(* is no date ("tbd", NotADate).  A score is in hundredths.                 *)

W_overdue == <<"o", "v", "e", "r", "d", "u", "e">>
W_today == <<"t", "o", "d", "a", "y">>
W_tomorrow == <<"t", "o", "m", "o", "r", "r", "o", "w">>
W_this == <<"t", "h", "i", "s">>
W_week == <<"w", "e", "e", "k">>
W_weekly == <<"w", "e", "e", "k", "l", "y">>
W_high == <<"h", "i", "g", "h">>
W_priority == <<"p", "r", "i", "o", "r", "i", "t", "y">>
W_from == <<"f", "r", "o", "m">>
W_note == <<"n", "o", "t", "e">>
W_report == <<"r", "e", "p", "o", "r", "t">>
W_note_colon == <<"n", "o", "t", "e", ":">>
W_n1 == <<"n", "1">>
W_n2 == <<"n", "2">>
SP == <<" ">>

RECURSIVE LStrip(_)
LStrip(txt) == IF txt # <<>> /\ IsSpace(Head(txt)) THEN LStrip(Tail(txt)) ELSE txt

\* str.strip()
str_strip(txt) == Reverse(LStrip(Reverse(LStrip(txt))))

\* _scope_tasks
_scope_tasks(tasks, workspace_id, user_id, include_done) ==
    SelectSeq(tasks, LAMBDA t :
        /\ ~(workspace_id # None /\ t.workspace_id # workspace_id)
        /\ ~(user_id # None /\ t.user_id # user_id)
        /\ ~(~include_done /\ t.status = Some("done")))

\* item.get("status") or "todo"; item.get("priority") or "medium"
StatusOf(t) == IF t.status = None THEN "todo" ELSE TheValue(t.status)
PriorityOf(t) == IF t.priority = None THEN "medium" ELSE TheValue(t.priority)

\* a due_date string: the ISO date n days after today, or the text "tbd"
IsoDate(n) == [iso |-> TRUE, days |-> n]
NotADate == [iso |-> FALSE, days |-> 0]

\* due_in_days: None for no due_date and for one strptime rejects
DueInDays(t) ==
    IF t.due_date = None THEN None
    ELSE IF ~TheValue(t.due_date).iso THEN None
    ELSE Some(TheValue(t.due_date).days)

\* the urgency of _enrich_task before min(urgency, 1.0)
SearchUrgency(t) ==
    LET base == CASE PriorityOf(t) = "low" -> 20
                  [] PriorityOf(t) = "medium" -> 50
                  [] PriorityOf(t) = "high" -> 80
                  [] OTHER -> 50
        d == DueInDays(t)
    IN  IF StatusOf(t) \in {"done", "archived"} THEN 0
        ELSE base
             + (IF d = None THEN 5
                ELSE IF TheValue(d) < 0 THEN 45
                ELSE IF TheValue(d) = 0 THEN 30
                ELSE IF TheValue(d) <= 3 THEN 20
                ELSE IF TheValue(d) <= 7 THEN 10
                ELSE 0)
             + (IF StatusOf(t) = "in_progress" THEN 5 ELSE 0)

\* _enrich_task: the task with the computed fields
_enrich_task(t) ==
    LET d == DueInDays(t)
        open == StatusOf(t) \notin {"done", "archived"}
    IN  [task |-> t,
         due_in_days |-> d,
         is_due_today |-> d # None /\ TheValue(d) = 0,
         is_overdue |-> d # None /\ TheValue(d) < 0 /\ open,
         is_due_soon |-> d # None /\ 0 <= TheValue(d) /\ TheValue(d) <= 3 /\ open,
         urgency_score |-> Min(SearchUrgency(t), 100)]

\* t.get("due_date") == target, target being the ISO date of tomorrow
DueTomorrow(e) ==
    e.task.due_date # None /\ TheValue(e.task.due_date) = IsoDate(1)

\* _current_week_range for a today that is weekday days after Monday, and
\* "t.get('due_date') and start <= t['due_date'] <= end" on the strings:
\* "tbd" sorts after every date
DueThisWeek(e, weekday) ==
    /\ e.task.due_date # None
    /\ TheValue(e.task.due_date).iso
    /\ 0 - weekday <= TheValue(e.task.due_date).days
    /\ TheValue(e.task.due_date).days <= 6 - weekday

RECURSIVE LastIndexOf(_, _, _)
\* the offset of the last occurrence of sep in q at or before p, or -1
LastIndexOf(sep, q, p) ==
    IF p < 0 THEN -1
    ELSE IF MatchLiteral(sep, q, p) THEN p
    ELSE LastIndexOf(sep, q, p - 1)

\* q.split(sep)[-1].split(): the words after the last occurrence of sep
WordsAfterLast(sep, q) ==
    LET p == LastIndexOf(sep, q, Len(q) - Len(sep))
    IN  Split(SubSeq(q, p + Len(sep) + 1, Len(q)))

\* _extract_note_id: [kind |-> "id", id |-> ...], [kind |-> "none"], or
\* [kind |-> "raised"] for the IndexError of "[0]" on an empty list
_extract_note_id(q) ==
    IF IsIn(W_note_colon, q)
    THEN IF WordsAfterLast(W_note_colon, q) = <<>> THEN [kind |-> "raised"]
         ELSE [kind |-> "id", id |-> WordsAfterLast(W_note_colon, q)[1]]
    ELSE IF IsIn(W_from \o SP \o W_note \o SP, q)
    THEN IF WordsAfterLast(W_from \o SP \o W_note \o SP, q) = <<>>
         THEN [kind |-> "raised"]
         ELSE [kind |-> "id", id |-> WordsAfterLast(W_from \o SP \o W_note \o SP, q)[1]]
    ELSE [kind |-> "none"]

\* " ".join([title, canonical_text, source_text]).lower()
Hay(t) == str_lower(t.title \o SP \o t.canonical_text \o SP \o t.source_text)

\* the score of _task_text_search: one for every term of the list found
TextScore(e, terms) ==
    Cardinality({ i \in 1..Len(terms) : IsIn(terms[i], Hay(e.task)) })

\* _task_text_search: the tasks with a hit, highest score first
_task_text_search(tasks, query) ==
    IF query = <<>> THEN tasks
    ELSE LET terms == Split(query)
             hit == SelectSeq(tasks, LAMBDA e : TextScore(e, terms) > 0)
             scored == SortByScore([j \in 1..Len(hit) |->
                           [score |-> TextScore(hit[j], terms), item |-> hit[j]]])
         IN  [i \in 1..Len(scored) |-> scored[i].item]

\* the sort key of _to_task_results: (-urgency_score, due_date or
\* "9999-12-31"); the strings compare as the dates do, "tbd" after all
TaskKeyBefore(a, b) ==
    LET due(e) == IF e.task.due_date = None THEN 100000
                  ELSE IF ~TheValue(e.task.due_date).iso THEN 100001
                  ELSE TheValue(e.task.due_date).days
    IN  \/ a.urgency_score > b.urgency_score
        \/ a.urgency_score = b.urgency_score /\ due(a) < due(b)

RECURSIVE SortTasksFrom(_, _, _)
\* sorted(tasks, key=...) is stable
SortTasksFrom(tasks, i, sorted) ==
    IF i > Len(tasks) THEN sorted
    ELSE LET k == Cardinality({ j \in 1..Len(sorted) :
                                  ~TaskKeyBefore(tasks[i], sorted[j]) })
         IN  SortTasksFrom(tasks, i + 1,
                 SubSeq(sorted, 1, k) \o <<tasks[i]>> \o SubSeq(sorted, k + 1, Len(sorted)))

\* _to_task_results
_to_task_results(tasks, source) ==
    LET tasks_sorted == SortTasksFrom(tasks, 1, <<>>)
    IN  [i \in 1..Len(tasks_sorted) |->
            [task_id |-> tasks_sorted[i].task.id,
             title |-> IF tasks_sorted[i].task.title # <<>>
                       THEN tasks_sorted[i].task.title
                       ELSE IF tasks_sorted[i].task.canonical_text # <<>>
                       THEN tasks_sorted[i].task.canonical_text
                       ELSE <<"Untitled Task">>,
             score |-> tasks_sorted[i].urgency_score,
             source |-> source,
             task |-> tasks_sorted[i]]]

\* mutant: the triggers today and overdue are tried in the other order
NlFilter_today_first(enriched, q, weekday) ==
    IF IsIn(W_today, q)
    THEN [kind |-> "filter", tasks |-> SelectSeq(enriched, LAMBDA e : e.is_due_today)]
    ELSE IF IsIn(W_overdue, q)
    THEN [kind |-> "filter", tasks |-> SelectSeq(enriched, LAMBDA e : e.is_overdue)]
    ELSE [kind |-> "none"]

\* the chain of "if <trigger> in q: filtered = ...; return" of
\* search_tasks_nl down to the note filter: the filtered list, a raise of
\* _extract_note_id, or no trigger
NlFilter(enriched, q, weekday) ==
    IF IsIn(W_overdue, q)
    THEN [kind |-> "filter", tasks |-> SelectSeq(enriched, LAMBDA e : e.is_overdue)]
    ELSE IF IsIn(W_today, q)
    THEN [kind |-> "filter", tasks |-> SelectSeq(enriched, LAMBDA e : e.is_due_today)]
    ELSE IF IsIn(W_tomorrow, q)
    THEN [kind |-> "filter", tasks |-> SelectSeq(enriched, LAMBDA e : DueTomorrow(e))]
    ELSE IF IsIn(W_this \o SP \o W_week, q) \/ IsIn(W_week, q)
    THEN [kind |-> "filter",
          tasks |-> SelectSeq(enriched, LAMBDA e : DueThisWeek(e, weekday))]
    ELSE IF IsIn(W_high \o SP \o W_priority, q) \/ IsIn(W_priority \o SP \o W_high, q)
    THEN [kind |-> "filter",
          tasks |-> SelectSeq(enriched, LAMBDA e : e.task.priority = Some("high"))]
    ELSE LET note_id == _extract_note_id(q)
         IN  IF note_id.kind = "raised" THEN [kind |-> "raised"]
             ELSE IF note_id.kind = "id"
             THEN [kind |-> "filter",
                   tasks |-> SelectSeq(enriched, LAMBDA e :
                       /\ e.task.note_id # None
                       /\ str_lower(TheValue(e.task.note_id)) = str_lower(note_id.id))]
             ELSE [kind |-> "none"]

\* search_tasks_nl(tasks, query, workspace_id, user_id, include_done) on a
\* day that is weekday days after Monday: the results, or an IndexError
SearchTasksNl(tasks, query, workspace_id, user_id, include_done, weekday) ==
    LET q == str_lower(str_strip(query))
        scoped == _scope_tasks(tasks, workspace_id, user_id, include_done)
        enriched == [i \in 1..Len(scoped) |-> _enrich_task(scoped[i])]
        f == NlFilter(enriched, q, weekday)
    IN  IF f.kind = "raised" THEN [kind |-> "raised", error |-> "IndexError"]
        ELSE IF f.kind = "filter"
        THEN [kind |-> "returned", results |-> _to_task_results(f.tasks, "nl_filter")]
        ELSE [kind |-> "returned",
              results |-> _to_task_results(_task_text_search(enriched, q), "text")]

-----------------------------------------------------------------------------
(* SpecTasks: search_tasks_nl applied to a task list and a query.           *)

MaxTasks == 2

W_ab == <<"a", "b">>

Task(id, title, status, priority, due_date, note_id, workspace_id) ==
    [id |-> id, title |-> title, canonical_text |-> <<>>, source_text |-> <<>>,
     status |-> status, priority |-> priority, due_date |-> due_date,
     note_id |-> note_id, workspace_id |-> workspace_id, user_id |-> Some("u1")]

K_late   == Task("t1", W_ab, Some("todo"), Some("high"), Some(IsoDate(-2)),
                 Some(W_n1), Some("ws1"))
K_done   == Task("t2", W_report, Some("done"), Some("low"), Some(IsoDate(0)),
                 Some(W_n1), Some("ws1"))
K_next   == Task("t3", W_ab \o SP \o W_report, Some("in_progress"), None,
                 Some(IsoDate(1)), Some(W_n2), Some("ws2"))
K_open   == Task("t4", <<>>, None, Some("high"), None, None, Some("ws1"))
K_tbd    == Task("t5", W_weekly, Some("archived"), Some("high"), Some(NotADate),
                 Some(W_n2), Some("ws1"))
K_later  == Task("t6", W_report, Some("todo"), Some("low"), Some(IsoDate(5)),
                 Some(W_n1), Some("ws2"))

TaskChoices == {K_late, K_done, K_next, K_open, K_tbd, K_later}

\* the queries
TaskQueries ==
    { W_overdue \o SP \o W_today,
      W_today \o SP \o W_overdue,
      SP \o <<"O", "v", "e", "r", "d", "u", "e">> \o SP,
      W_today \o SP \o W_tomorrow,
      W_tomorrow \o SP \o W_this \o SP \o W_week,
      W_high \o SP \o W_priority \o SP \o W_this \o SP \o W_week,
      W_weekly \o SP \o W_report,
      W_high \o SP \o W_priority \o SP \o W_note_colon \o W_n1,
      W_priority \o SP \o W_high,
      W_high \o SP \o W_priority \o SP \o W_weekly \o SP \o W_note_colon \o W_n1,
      W_from \o SP \o W_note \o SP \o W_n1 \o SP \o W_tomorrow,
      W_from \o SP \o W_note \o SP \o W_n2,
      W_note_colon \o W_n1,
      W_report \o SP \o W_note_colon,
      W_ab \o SP \o W_report,
      W_priority,
      <<>> }

Weekdays == {0, 3, 6}

InitTasks ==
    /\ ts_last \in [op : {"pending"}, tasks : SeqsUpTo(TaskChoices, MaxTasks),
                     query : TaskQueries, workspace_id : {None, Some("ws1")},
                     include_done : BOOLEAN, weekday : Weekdays]
    /\ sr_chunks = <<>>
    /\ sr_embed = FALSE
    /\ sr_graph = FALSE
    /\ sr_last = [op |-> "init"]
    /\ DedupOff
    /\ ExtractorInit
    /\ GraphInit
    /\ SegOff

\* search_tasks_nl(tasks, query, workspace_id, include_done=...)
search_tasks_nl ==
    /\ ts_last.op = "pending"
    /\ ts_last' = [op |-> "search_tasks_nl", tasks |-> ts_last.tasks,
                   query |-> ts_last.query, workspace_id |-> ts_last.workspace_id,
                   include_done |-> ts_last.include_done, weekday |-> ts_last.weekday,
                   ret |-> SearchTasksNl(ts_last.tasks, ts_last.query,
                                         ts_last.workspace_id, None,
                                         ts_last.include_done, ts_last.weekday)]
    /\ UNCHANGED <<sr_chunks, sr_embed, sr_graph, sr_last, ddVars, exVars, gVars,
                   segVars>>

NextTasks == search_tasks_nl

SpecTasks == InitTasks /\ [][NextTasks]_vars

-----------------------------------------------------------------------------
(* IntelligenceLayer: task enrichment.  An urgency score of the layer is in *)
(* ten-thousandths (round(score, 4) * 10000); before the rounding it is     *)
(* kept as a count of fourteenths of a ten-thousandth, which makes the      *)
(* lateness term (lateness / 14.0) * 0.30 exact.                            *)

\* round(x, 4) of x = n14 / 140000, in ten-thousandths: to the nearest, a
\* tie to the even one
Round4(n14) ==
    LET q == n14 \div 14
        r == n14 % 14
    IN  IF 2 * r < 14 THEN q
        ELSE IF 2 * r > 14 THEN q + 1
        ELSE IF q % 2 = 0 THEN q ELSE q + 1

\* mutant: the overdue increment is the flat 0.45 of the search engine
_compute_urgency_score_flat(priority, status, due_in_days) ==
    LET base == CASE priority = "low" -> 2000
                  [] priority = "medium" -> 5000
                  [] priority = "high" -> 8000
                  [] OTHER -> 5000
    IN  IF status \in {"done", "archived"} THEN 0
        ELSE Min(10000,
                 base + (IF due_in_days = None THEN 500
                         ELSE IF TheValue(due_in_days) < 0 THEN 4500
                         ELSE IF TheValue(due_in_days) = 0 THEN 3000
                         ELSE IF TheValue(due_in_days) <= 3 THEN 2000
                         ELSE IF TheValue(due_in_days) <= 7 THEN 1000
                         ELSE 200)
                      + (IF status = "in_progress" THEN 500 ELSE 0))

\* IntelligenceLayer._compute_urgency_score
_compute_urgency_score(priority, status, due_in_days) ==
    LET base == CASE priority = "low" -> 2000
                  [] priority = "medium" -> 5000
                  [] priority = "high" -> 8000
                  [] OTHER -> 5000
        lateness == Min(0 - TheValue(due_in_days), 14)
        due14 == IF due_in_days = None THEN 14 * 500
                 ELSE IF TheValue(due_in_days) < 0 THEN 14 * 3500 + lateness * 3000
                 ELSE IF TheValue(due_in_days) = 0 THEN 14 * 3000
                 ELSE IF TheValue(due_in_days) <= 3 THEN 14 * 2000
                 ELSE IF TheValue(due_in_days) <= 7 THEN 14 * 1000
                 ELSE 14 * 200
        score14 == 14 * base + due14 + (IF status = "in_progress" THEN 14 * 500 ELSE 0)
    IN  IF status \in {"done", "archived"} THEN 0
        ELSE Round4(Min(score14, 14 * 10000))

\* IntelligenceLayer._attention_bucket
_attention_bucket(item) ==
    IF item.task.status \in {Some("done"), Some("archived")} THEN "closed"
    ELSE IF item.is_overdue THEN "overdue"
    ELSE IF item.is_due_today THEN "today"
    ELSE IF item.is_due_soon THEN "soon"
    ELSE "planned"

\* the body of the loop of enrich_tasks: the task with the computed fields
EnrichOne(t) ==
    LET d == DueInDays(t)
        open == StatusOf(t) \notin {"done", "archived"}
        item == [task |-> t,
                 due_in_days |-> d,
                 is_due_today |-> d # None /\ TheValue(d) = 0,
                 is_overdue |-> d # None /\ TheValue(d) < 0 /\ open,
                 is_due_soon |-> d # None /\ 0 <= TheValue(d) /\ TheValue(d) <= 3 /\ open,
                 urgency_score |-> _compute_urgency_score(PriorityOf(t), StatusOf(t), d)]
    IN  [task |-> item.task, due_in_days |-> item.due_in_days,
         is_due_today |-> item.is_due_today, is_overdue |-> item.is_overdue,
         is_due_soon |-> item.is_due_soon, urgency_score |-> item.urgency_score,
         attention_bucket |-> _attention_bucket(item)]

\* IntelligenceLayer.enrich_tasks(tasks, now): the enriched tasks, the most
\* urgent first
EnrichTasks(tasks) ==
    SortTasksFrom([i \in 1..Len(tasks) |-> EnrichOne(tasks[i])], 1, <<>>)

\* HybridSearchEngine.search_tasks_structured(tasks, status=..., priority=...)
SearchTasksStructured(tasks, status, priority) ==
    LET scoped == _scope_tasks(tasks, None, None, TRUE)
        by_status == IF status = None THEN scoped
                     ELSE SelectSeq(scoped, LAMBDA t : t.status = status)
        out == IF priority = None THEN by_status
               ELSE SelectSeq(by_status, LAMBDA t : t.priority = priority)
    IN  _to_task_results([i \in 1..Len(out) |-> _enrich_task(out[i])], "structured")

-----------------------------------------------------------------------------
(* SpecUrgency: one task list enriched by the intelligence layer or put to  *)
(* the structured task search, on the same day.                             *)

MaxLate == 20
MaxAhead == 9

Priorities == {None, Some("low"), Some("medium"), Some("high"), Some("urgent")}
Statuses == {None, Some("todo"), Some("in_progress"), Some("done"), Some("archived")}
DueDates ==
    {None, Some(NotADate)} \cup { Some(IsoDate(n)) : n \in (0 - MaxLate)..MaxAhead }

U_ref == Task("u2", W_report, Some("todo"), Some("medium"), Some(IsoDate(2)),
              None, Some("ws1"))

\* a task of every priority, status and due date, alone or before U_ref
UrgencyTaskLists ==
    { <<Task("u1", W_ab, s, p, d, None, Some("ws1"))>> \o rest :
        s \in Statuses, p \in Priorities, d \in DueDates, rest \in {<<>>, <<U_ref>>} }

InitUrgency ==
    /\ ts_last \in [op : {"pending"}, tasks : UrgencyTaskLists,
                     status : {None, Some("todo")}]
    /\ sr_chunks = <<>>
    /\ sr_embed = FALSE
    /\ sr_graph = FALSE
    /\ sr_last = [op |-> "init"]
    /\ DedupOff
    /\ ExtractorInit
    /\ GraphInit
    /\ SegOff

\* IntelligenceLayer.enrich_tasks(tasks, now)
enrich_tasks ==
    /\ ts_last.op = "pending"
    /\ ts_last' = [op |-> "enrich_tasks", tasks |-> ts_last.tasks,
                   status |-> ts_last.status, ret |-> EnrichTasks(ts_last.tasks)]
    /\ UNCHANGED <<sr_chunks, sr_embed, sr_graph, sr_last, ddVars, exVars, gVars,
                   segVars>>

\* HybridSearchEngine.search_tasks_structured(tasks, status=...)
search_tasks_structured ==
    /\ ts_last.op = "pending"
    /\ ts_last' = [op |-> "search_tasks_structured", tasks |-> ts_last.tasks,
                   status |-> ts_last.status,
                   ret |-> SearchTasksStructured(ts_last.tasks, ts_last.status, None)]
    /\ UNCHANGED <<sr_chunks, sr_embed, sr_graph, sr_last, ddVars, exVars, gVars,
                   segVars>>

NextUrgency ==
    \/ enrich_tasks
    \/ search_tasks_structured

SpecUrgency == InitUrgency /\ [][NextUrgency]_vars

-----------------------------------------------------------------------------
(* Claims about extract() (SpecExtract).                                    *)

PassLog(pass) == SelectSeq(svc_log, LAMBDA e : e.pass = pass)
Calls(pass) == Len(PassLog(pass))
Passes == {"obj", "rel"}
FailedClasses == {"raised", "unparseable"}

Returned == pc = "done" /\ ex_result # {}
TheResult == CHOOSE r \in ex_result : TRUE
ResultIds == { TheResult.objects[k].id : k \in 1..Len(TheResult.objects) }
EmptyResult == ExtractionResult(<<>>, <<>>, <<>>)

\* what is left of extract(): object pass, its retry, relationship pass, its
\* retry, returned
Remaining ==
    CASE pc = "obj" /\ ~is_retry -> 4
      [] pc = "obj" /\ is_retry -> 3
      [] pc = "rel" /\ ~is_retry -> 2
      [] pc = "rel" /\ is_retry -> 1
      [] OTHER -> 0

\* C1: whatever the service answers, each pass calls it at most twice, one
\* extract() run calls it at most four times, and the run terminates: every
\* call moves extract() strictly closer to its return.
C1_BoundedCalls ==
    /\ [](Calls("obj") <= 2 /\ Calls("rel") <= 2 /\ Len(svc_log) <= 4)
    /\ [][(pc \in {"obj", "rel"}) => (Remaining' < Remaining)]_vars

\* C1 witness: a run that returned after four service calls.
C1_Witness == Returned /\ Calls("obj") = 2 /\ Calls("rel") = 2

\* C2 as stated: in both passes a first answer that parses, strictly or after
\* the repair, is accepted from that single call; only a first answer that
\* cannot be parsed even after the repair, or a failed call, is retried.
C2_ParsedNeverRetried ==
    \A p \in Passes :
        (Calls(p) >= 1 /\ PassLog(p)[1].class \notin FailedClasses) => Calls(p) = 1

\* C2 amended: a first answer that parses, strictly or after the repair, to
\* a JSON object with an array member is accepted from that single call; a
\* retry happens only when the first answer cannot be parsed even after the
\* repair, the call fails, or the answer parses to JSON of another shape.
C2_ValidNeverRetried ==
    \A p \in Passes :
        /\ (Calls(p) >= 1 /\ PassLog(p)[1].class \in {"strict", "repaired"})
              => /\ Calls(p) = 1
                 /\ ~(pc = p /\ is_retry)
        /\ Calls(p) = 2 => PassLog(p)[1].class \in FailedClasses \cup {"invalid"}

\* C2 witness: both passes accepted their first answer, one of them after
\* the repair, and extract() returned objects and links.
C2_Witness ==
    /\ Returned
    /\ Calls("obj") = 1 /\ Calls("rel") = 1
    /\ PassLog("obj")[1].class = "repaired"
    /\ PassLog("rel")[1].class = "strict"
    /\ TheResult.links # <<>>

\* C3: when both attempts of the object pass fail (each raises or answers
\* text that cannot be parsed even after the repair), extract() returns an
\* ExtractionResult with no objects, links or mentions, and the relationship
\* pass never calls the service.
C3_EmptyOnDoubleFailure ==
    ( /\ Calls("obj") >= 2
      /\ PassLog("obj")[1].class \in FailedClasses
      /\ PassLog("obj")[2].class \in FailedClasses )
    => /\ Calls("obj") = 2
       /\ pc = "done"
       /\ ex_result = {EmptyResult}
       /\ Calls("rel") = 0

\* C3 witness: extract() returned after a raised call and an unparseable one.
C3_Witness ==
    /\ Returned
    /\ Calls("obj") = 2
    /\ PassLog("obj")[1].class = "raised"
    /\ PassLog("obj")[2].class = "unparseable"

\* the links array of the answer the relationship pass accepted
AcceptedLinkItems == PassLog("rel")[Calls("rel")].items

LinkPasses(item, ids) ==
    /\ item.type \in LinkTypes
    /\ item.source_id \in ids
    /\ item.target_id \in ids

\* C4: every link of the result has its source and its target among the
\* ids of the objects of the same result; a link answered with an unknown
\* endpoint is dropped and the valid links of the same answer are all kept,
\* in their order.
C4_LinksWithinObjects ==
    Returned =>
        /\ \A k \in 1..Len(TheResult.links) :
              /\ TheResult.links[k].source_id \in ResultIds
              /\ TheResult.links[k].target_id \in ResultIds
        /\ Calls("rel") >= 1 =>
              LET kept == SelectSeq(AcceptedLinkItems,
                                    LAMBDA it : LinkPasses(it, ResultIds))
              IN  /\ Len(TheResult.links) = Len(kept)
                  /\ \A k \in 1..Len(kept) :
                        /\ TheResult.links[k].source_id = kept[k].source_id
                        /\ TheResult.links[k].target_id = kept[k].target_id
                        /\ TheResult.links[k].type = kept[k].type

\* C4 witness: the answer held a link to an unknown object and a valid link;
\* the result holds the valid one.
C4_Witness ==
    /\ Returned
    /\ Calls("rel") >= 1
    /\ \E k \in 1..Len(AcceptedLinkItems) :
          /\ AcceptedLinkItems[k].type \in LinkTypes
          /\ AcceptedLinkItems[k].target_id \notin ResultIds
    /\ TheResult.links # <<>>

\* C5: in every returned result each object has exactly one mention: as many
\* mentions as objects, each object id the object_id of exactly one mention,
\* and every mention carries the note_id passed to extract().
C5_OneMentionPerObject ==
    Returned =>
        /\ Len(TheResult.mentions) = Len(TheResult.objects)
        /\ \A k \in 1..Len(TheResult.objects) :
              Cardinality({ m \in 1..Len(TheResult.mentions) :
                  TheResult.mentions[m].object_id = TheResult.objects[k].id }) = 1
        /\ \A m \in 1..Len(TheResult.mentions) :
              TheResult.mentions[m].note_id = ex_args.note_id

\* C5 witness: a result with three objects, chunks supplied, and a mention
\* that fell back to the default span.
C5_Witness ==
    /\ Returned
    /\ Len(TheResult.objects) = 3
    /\ ex_args.chunks # <<>>
    /\ \E m \in 1..Len(TheResult.mentions) :
          TheResult.mentions[m].span_id = ex_args.span_id

\* the interval of a chunk after extract() reconciled the offsets; a chunk
\* whose offset is still missing (-1) has none
Contains(chunk, s) ==
    /\ chunk.start_char_idx # -1
    /\ chunk.start_char_idx <= s
    /\ s <= chunk.end_char_idx

MentionOf(obj) ==
    CHOOSE m \in Range(TheResult.mentions) : m.object_id = obj.id

-----------------------------------------------------------------------------
(* Claims about the graph (SpecGraph).                                      *)

\* the ordered pairs the last call asked to connect
AskedPairs ==
    CASE g_last.op = "add_links" ->
             { <<g_last.arg[i].source_id, g_last.arg[i].target_id>> :
                 i \in 1..Len(g_last.arg) }
      [] g_last.op = "attach_note_to_tasks" ->
             { <<g_last.arg.note, g_last.arg.task_ids[i]>> :
                 i \in 1..Len(g_last.arg.task_ids) }
      [] OTHER -> {}

\* those of them with both endpoints nodes of the graph at the time of the call
ConnectablePairs ==
    { e \in AskedPairs : e[1] \in DOMAIN g_last.nodes /\ e[2] \in DOMAIN g_last.nodes }

\* C10: after any sequence of add_objects, add_links and attach_note_to_tasks
\* every edge's source and target are nodes of the graph; a link or task id
\* whose endpoint was not a node at the time of the call created no edge and
\* no node, and the call left the rest of the graph unchanged: the nodes are
\* those before the call, the edges are those before the call and those asked
\* for between nodes, and every other edge kept its attributes.
C10_EdgesBetweenNodes ==
    /\ \A e \in DOMAIN g_edges : e[1] \in DOMAIN g_nodes /\ e[2] \in DOMAIN g_nodes
    /\ g_last.op \in {"add_links", "attach_note_to_tasks"} =>
          /\ g_nodes = g_last.nodes
          /\ DOMAIN g_edges = DOMAIN g_last.edges \cup ConnectablePairs
          /\ \A e \in DOMAIN g_last.edges \ ConnectablePairs :
                g_edges[e] = g_last.edges[e]

\* C10 witness: one call asked for an edge to an object that is not a node
\* and for an edge between nodes; the graph gained exactly the second.
C10_Witness ==
    /\ g_last.op \in {"add_links", "attach_note_to_tasks"}
    /\ AskedPairs \ ConnectablePairs # {}
    /\ ConnectablePairs \ DOMAIN g_last.edges # {}
    /\ DOMAIN g_last.edges # {}

\* the links of an add_links call whose endpoints were both nodes
AcceptedLinks ==
    SelectSeq(g_last.arg, LAMBDA l : /\ l.source_id \in DOMAIN g_last.nodes
                                     /\ l.target_id \in DOMAIN g_last.nodes)

\* C11: edges accumulate: after add_links every edge that was in the graph is
\* still there with the type and confidence it had, and the graph has gained
\* one edge for every link of the call whose endpoints were both nodes, also
\* when two links have the same source and target.
C11_EdgesAccumulate ==
    g_last.op = "add_links" =>
        /\ \A e \in DOMAIN g_last.edges :
              e \in DOMAIN g_edges /\ g_edges[e] = g_last.edges[e]
        /\ Cardinality(DOMAIN g_edges) =
              Cardinality(DOMAIN g_last.edges) + Len(AcceptedLinks)

\* C11 failing input reached: two links between the same two nodes in one
\* call, Supports then Contradicts, leave the single edge obj_001 -> obj_002
\* carrying the attributes of the second.
C11_Witness ==
    /\ g_last.op = "add_links"
    /\ g_last.arg = <<K_12s, K_12c>>
    /\ {"obj_001", "obj_002"} \subseteq DOMAIN g_last.nodes
    /\ DOMAIN g_edges = {<<"obj_001", "obj_002">>}
    /\ g_edges[<<"obj_001", "obj_002">>] = [type |-> "Contradicts", confidence |-> 7]

\* the last object of a list that has the id
LastWritten(objs, id) ==
    objs[CHOOSE i \in 1..Len(objs) :
            /\ objs[i].id = id
            /\ \A j \in (i + 1)..Len(objs) : objs[j].id # id]

\* C12: after add_objects the attributes of every node the call wrote are
\* exactly the node data of the last object written with that id (nothing of
\* an earlier write remains), and adding the same objects once more leaves
\* the graph as it is.
C12_LastWriteWins ==
    g_last.op = "add_objects" =>
        /\ \A i \in 1..Len(g_last.arg) :
              g_nodes[g_last.arg[i].id] =
                  NodeData(LastWritten(g_last.arg, g_last.arg[i].id))
        /\ AddObjectsFrom(g_nodes, g_last.arg, 1) = g_nodes

\* C12 failing input reached: obj_002 written with attributes {due_date},
\* then with attributes {note_id}: the node still has the key due_date.
C12_Witness ==
    /\ g_last.op = "add_objects"
    /\ \E i \in 1..Len(g_last.arg) : g_last.arg[i] = G_task2
    /\ LastWritten(g_last.arg, "obj_002") = G_task2
    /\ "due_date" \in DOMAIN g_nodes["obj_002"]
    /\ g_nodes["obj_002"].attributes = [note_id |-> "note_7"]

\* b is reached from a by following at most k edges forward
WithinHops(edges, a, b, k) ==
    \E len \in 0..k :
        \E p \in [1..(len + 1) -> {a, b} \cup { e[1] : e \in DOMAIN edges }] :
            /\ p[1] = a
            /\ p[len + 1] = b
            /\ \A i \in 1..len : <<p[i], p[i + 1]>> \in DOMAIN edges

\* C13: get_subgraph(node_id, depth) of a node returns exactly the nodes
\* within depth forward hops of node_id (node_id among them) and the direct
\* predecessors of node_id, each with its attributes, and as links exactly
\* the edges of the graph between returned nodes; for an id that is not a
\* node it returns no nodes and no links.
C13_SubgraphIsReachableSet ==
    g_last.op = "get_subgraph" =>
        LET n == g_last.arg.node_id
            r == g_last.arg.result
            ids == { x.id : x \in r.nodes }
        IN  IF n \notin DOMAIN g_nodes THEN r = [nodes |-> {}, links |-> {}]
            ELSE /\ ids = { m \in DOMAIN g_nodes :
                               \/ WithinHops(g_edges, n, m, g_last.arg.depth)
                               \/ <<m, n>> \in DOMAIN g_edges }
                 /\ \A x \in r.nodes : x.data = g_nodes[x.id]
                 /\ \A l \in r.links :
                       /\ l.source \in ids /\ l.target \in ids
                       /\ <<l.source, l.target>> \in DOMAIN g_edges
                 /\ \A e \in DOMAIN g_edges :
                       (e[1] \in ids /\ e[2] \in ids) =>
                           [source |-> e[1], target |-> e[2], data |-> g_edges[e]]
                               \in r.links

\* C13 witness: a query of depth 0 on obj_002, which has the predecessor
\* obj_001 and the successor obj_003: the node and its predecessor are
\* returned with the edge between them, the successor is not.
C13_Witness ==
    /\ g_last.op = "get_subgraph"
    /\ g_last.arg.node_id = "obj_002" /\ g_last.arg.depth = 0
    /\ { x.id : x \in g_last.arg.result.nodes } = {"obj_001", "obj_002"}
    /\ <<"obj_002", "obj_003">> \in DOMAIN g_edges
    /\ Cardinality(g_last.arg.result.links) = 1

-----------------------------------------------------------------------------
(* Claims about deduplication (SpecDedup).                                  *)

Jaccard5Exceeds4(a, b) == 5 * Cardinality(a \cap b) > 4 * Cardinality(a \cup b)
Jaccard5AtLeast4(a, b) ==
    /\ a \cup b # {}
    /\ 5 * Cardinality(a \cap b) >= 4 * Cardinality(a \cup b)

\* near-duplicates as the code compares them
NearDup(o1, o2) ==
    /\ WordSet(o1.canonical_text) # {}
    /\ WordSet(o2.canonical_text) # {}
    /\ OverlapExceeds(WordSet(o1.canonical_text), WordSet(o2.canonical_text))

\* a candidate survives when an object of its type and text is in the output
Survives(c, out) ==
    \E k \in 1..Len(out) :
        out[k].type = c.type /\ out[k].canonical_text = c.canonical_text

PriorityOrdered(out) ==
    \A i, j \in 1..Len(out) :
        i < j => TYPE_PRIORITY(out[i].type) <= TYPE_PRIORITY(out[j].type)

\* C7: deduplication is idempotent: applied to its own output it returns the
\* same objects, in the same order, with the same ids.
C7_DedupIdempotent == dd_stage = "twice" => dd_twice = dd_out

\* C7 witness: a second application after a first one that dropped a
\* duplicate and kept at least two objects.
C7_Witness ==
    /\ dd_stage = "twice"
    /\ Len(dd_out) < Len(dd_in)
    /\ Len(dd_out) >= 2

\* C8 as stated: no two survivors have word sets whose Jaccard overlap is
\* 0.8 or more.
C8_NoPairAtLeast80 ==
    dd_stage \in {"once", "twice"} =>
        \A i, j \in 1..Len(dd_out) :
            i # j => ~Jaccard5AtLeast4(WordSet(dd_out[i].canonical_text),
                                       WordSet(dd_out[j].canonical_text))

\* C8 amended: no two survivors have word sets whose Jaccard overlap exceeds
\* 0.8 (a pair at exactly 0.8 may both survive).
C8_NoPairAbove80 ==
    dd_stage \in {"once", "twice"} =>
        \A i, j \in 1..Len(dd_out) :
            i # j => ~Jaccard5Exceeds4(WordSet(dd_out[i].canonical_text),
                                       WordSet(dd_out[j].canonical_text))

\* C8 witness: two candidates with Jaccard overlap above 0.8 went in and one
\* of them was dropped.
C8_Witness ==
    /\ dd_stage = "once"
    /\ \E i, j \in 1..Len(dd_in) :
          /\ i # j
          /\ dd_in[i].canonical_text # dd_in[j].canonical_text
          /\ Jaccard5Exceeds4(WordSet(dd_in[i].canonical_text),
                              WordSet(dd_in[j].canonical_text))
          /\ Survives(dd_in[i], dd_out)
          /\ ~Survives(dd_in[j], dd_out)

\* C9 as stated: of two near-duplicate candidates of different types the one
\* of the earlier type is the one that survives (so the one of the later type
\* never does), and the survivors are in priority order.
C9_EarlierTypeSurvives ==
    dd_stage \in {"once", "twice"} =>
        /\ PriorityOrdered(dd_out)
        /\ \A i, j \in 1..Len(dd_in) :
              ( /\ NearDup(dd_in[i], dd_in[j])
                /\ TYPE_PRIORITY(dd_in[i].type) < TYPE_PRIORITY(dd_in[j].type) )
              => ~Survives(dd_in[j], dd_out)

\* C9 amended: two near-duplicate candidates of different types never both
\* survive; the one of the later type survives only when the one of the
\* earlier type was itself dropped as a near-duplicate of a kept object of no
\* later priority; the survivors are in priority order.
C9_EarlierTypeWinsWhenKept ==
    dd_stage \in {"once", "twice"} =>
        /\ PriorityOrdered(dd_out)
        /\ \A i, j \in 1..Len(dd_in) :
              ( /\ NearDup(dd_in[i], dd_in[j])
                /\ TYPE_PRIORITY(dd_in[i].type) < TYPE_PRIORITY(dd_in[j].type)
                /\ Survives(dd_in[j], dd_out) )
              => /\ ~Survives(dd_in[i], dd_out)
                 /\ \E k \in 1..Len(dd_out) :
                       /\ NearDup(dd_out[k], dd_in[i])
                       /\ TYPE_PRIORITY(dd_out[k].type) <= TYPE_PRIORITY(dd_in[i].type)

\* C9 witness: near-duplicates of different types went in, the earlier type
\* was kept and the later type dropped.
C9_Witness ==
    /\ dd_stage = "once"
    /\ \E i, j \in 1..Len(dd_in) :
          /\ NearDup(dd_in[i], dd_in[j])
          /\ TYPE_PRIORITY(dd_in[i].type) < TYPE_PRIORITY(dd_in[j].type)
          /\ i > j
          /\ Survives(dd_in[i], dd_out)
          /\ ~Survives(dd_in[j], dd_out)


-----------------------------------------------------------------------------
(* Claims about chunk_text_task (SpecSegment).                              *)

\* the sentences of the note that have tokens
NoteSentences == Sentences(note_sents)

\* the 1-based positions in NoteSentences of a span's first and last sentence
FirstSent(span) ==
    CHOOSE i \in 1..Len(NoteSentences) : NoteSentences[i].start_char = span.start_char
LastSent(span) ==
    CHOOSE i \in 1..Len(NoteSentences) : NoteSentences[i].end_char = span.end_char

\* the tokens of the sentences i..j
TokensOf(i, j) == PrefixTokens(NoteSentences, j) - PrefixTokens(NoteSentences, i - 1)

\* C14 as stated: every span chunk_text_task builds has token_count <=
\* window_size (here for well-formed window_size and overlap only).
C14_SpanWithinWindow ==
    ~WindowRangesRaises(seg_args.window_size, seg_args.overlap) =>
        \A k \in 1..Len(spans) : spans[k].token_count <= seg_args.window_size

\* C14 amended: a span's token_count is the sum of the token counts of its
\* sentences, and it is <= window_size unless the span is a single sentence
\* or its sentences before the last one hold fewer than min_tokens tokens.
C14_SpanWithinWindowUnlessForced ==
    \A k \in 1..Len(spans) :
        LET i == FirstSent(spans[k])
            j == LastSent(spans[k])
        IN  /\ i <= j
            /\ spans[k].token_count = TokensOf(i, j)
            /\ \/ spans[k].token_count <= seg_args.window_size
               \/ i = j
               \/ TokensOf(i, j - 1) < seg_args.min_tokens

\* C14 witness: one run with a span of several sentences closed within the
\* window and a span of several sentences that exceeds it.
C14_Witness ==
    /\ seg_args.window_size > 0
    /\ \E k \in 1..Len(spans) :
          /\ FirstSent(spans[k]) < LastSent(spans[k])
          /\ spans[k].token_count <= seg_args.window_size
          /\ LastSent(spans[k]) < Len(NoteSentences)
    /\ \E k \in 1..Len(spans) :
          /\ FirstSent(spans[k]) < LastSent(spans[k])
          /\ spans[k].token_count > seg_args.window_size

\* the call has built its spans list
SpansBuilt == seg_pc \in {"delete", "insert", "update"}
                 \/ (seg_ret.kind = "returned" /\ seg_ret.value > 0)

\* the first span starts at the first sentence, the last ends at the last
CoversEnds ==
    /\ spans # <<>>
    /\ FirstSent(spans[1]) = 1
    /\ LastSent(spans[Len(spans)]) = Len(NoteSentences)

\* every sentence lies in at least one span
EverySentenceCovered ==
    \A i \in 1..Len(NoteSentences) :
        \E k \in 1..Len(spans) : FirstSent(spans[k]) <= i /\ i <= LastSent(spans[k])

\* C15 as stated: the spans cover the text without gaps, and each later span
\* starts at or before the sentence where the previous span ended (its last
\* sentence).
C15_CoverWithSharedSentence ==
    SpansBuilt =>
        /\ CoversEnds
        /\ \A k \in 2..Len(spans) : FirstSent(spans[k]) <= LastSent(spans[k - 1])
        /\ EverySentenceCovered

\* C15 amended: the first span starts at the first sentence, the last span
\* ends at the last sentence, each later span starts after the start of the
\* previous span and no later than the sentence that follows the previous
\* span's last sentence, so every sentence with tokens lies in a span.
C15_CoverWithoutGap ==
    SpansBuilt =>
        /\ CoversEnds
        /\ \A k \in 2..Len(spans) :
              /\ FirstSent(spans[k]) > FirstSent(spans[k - 1])
              /\ FirstSent(spans[k]) <= LastSent(spans[k - 1]) + 1
        /\ EverySentenceCovered

\* C15 witness: three spans, the second starting at the last sentence of the
\* first, the third at the sentence after the last sentence of the second.
C15_Witness ==
    /\ SpansBuilt
    /\ Len(spans) = 3
    /\ FirstSent(spans[2]) = LastSent(spans[1])
    /\ FirstSent(spans[3]) = LastSent(spans[2]) + 1

\* C16: a call of chunk_text_task with window_size <= 0, overlap < 0 or
\* overlap >= window_size raises a configuration error (ValueError) and
\* leaves the note's status and the spans table as they were.
C16_ConfigErrorRaised ==
    (seg_args # NoSegArgs /\ WindowRangesRaises(seg_args.window_size, seg_args.overlap)) =>
        /\ seg_ret.kind = "raised"
        /\ seg_ret.error = "ValueError"
        /\ note_status = seg_before.status
        /\ spans_table = seg_before.rows

\* C16 failing input reached: a call with malformed parameters returned a
\* positive number of spans, having replaced the note's spans and set its
\* status.
C16_Witness ==
    /\ WindowRangesRaises(seg_args.window_size, seg_args.overlap)
    /\ seg_ret.kind = "returned" /\ seg_ret.value > 0
    /\ note_status = "chunked" /\ seg_before.status = "extracted"
    /\ spans_table # seg_before.rows


-----------------------------------------------------------------------------
(* Claims about chunk search (SpecSearch).                                  *)

Searched == sr_last.op = "search"

\* the results of a list that carry a chunk id
WithId(results, chunk_id) ==
    { results[i] : i \in { j \in 1..Len(results) : results[j].chunk_id = chunk_id } }

SortedByScore(results) ==
    \A i \in 1..Len(results) : \A j \in i..Len(results) :
        results[i].score >= results[j].score

NoIdRepeated(results) ==
    \A i \in 1..Len(results) : \A j \in 1..Len(results) :
        results[i].chunk_id = results[j].chunk_id => i = j

\* C17: the list search() holds before the graph boost is the fusion by
\* chunk id of the two retrievals: an id returned by both appears with
\* source "hybrid" and the sum of a vector and a keyword score of that id, an
\* id returned by one retrieval only appears with a score and the source of
\* that retrieval; the list is sorted by descending score, has at most top_k
\* entries and repeats no chunk id.
C17_FusionByChunkId ==
    Searched =>
        /\ SortedByScore(sr_last.fused)
        /\ Len(sr_last.fused) <= sr_last.top_k
        /\ NoIdRepeated(sr_last.fused)
        /\ \A i \in 1..Len(sr_last.fused) :
              LET e == sr_last.fused[i]
                  vs == WithId(sr_last.vector_results, e.chunk_id)
                  ks == WithId(sr_last.keyword_results, e.chunk_id)
              IN  /\ vs # {} \/ ks # {}
                  /\ (vs # {} /\ ks # {}) =>
                        /\ e.source = "hybrid"
                        /\ \E v \in vs, k \in ks : e.score = v.score + k.score
                  /\ (vs # {} /\ ks = {}) =>
                        /\ e.source = "vector"
                        /\ \E v \in vs : e.score = v.score
                  /\ (vs = {} /\ ks # {}) =>
                        /\ e.source = "keyword"
                        /\ \E k \in ks : e.score = k.score

\* C17 failing input reached: no embedding generator, one chunk id indexed
\* twice with texts that both match the query: the id is returned by the
\* keyword retrieval only and comes out "hybrid" with the two scores added.
C17_Witness ==
    /\ Searched
    /\ ~sr_embed
    /\ sr_last.vector_results = <<>>
    /\ Len(sr_last.keyword_results) = 2
    /\ Len(sr_last.fused) = 1
    /\ sr_last.fused[1].source = "hybrid"
    /\ sr_last.fused[1].score =
          sr_last.keyword_results[1].score + sr_last.keyword_results[2].score

\* C18: the graph boost of search() returns the results it was given, none
\* removed and none added: each keeps its chunk id and text, its score is
\* raised by 0.15 when the engine has a graph, the lookup did not fail and
\* the chunk id is a node of the graph (its one-hop subgraph has a node), and
\* is unchanged together with its source otherwise; the output is sorted by
\* descending score.
C18_BoostIsAdditive ==
    (Searched /\ sr_last.use_graph_boost) =>
        LET input == sr_last.fused
            output == sr_last.results
        IN  /\ Len(output) = Len(input)
            /\ NoIdRepeated(output)
            /\ SortedByScore(output)
            /\ \A i \in 1..Len(input) :
                  \E j \in 1..Len(output) :
                      /\ output[j].chunk_id = input[i].chunk_id
                      /\ output[j].text = input[i].text
                      /\ IF /\ sr_graph
                            /\ input[i].chunk_id \notin sr_last.lookup_fails
                            /\ input[i].chunk_id \in DOMAIN g_nodes
                         THEN output[j].score = input[i].score + 15
                         ELSE output[j] = input[i]

\* C18 witness: the boost raised the second of two results over the first,
\* which it left unchanged.
C18_Witness ==
    /\ Searched /\ sr_last.use_graph_boost /\ sr_graph
    /\ Len(sr_last.fused) = 2
    /\ sr_last.results[1].chunk_id = sr_last.fused[2].chunk_id
    /\ sr_last.results[1].score = sr_last.fused[2].score + 15
    /\ sr_last.results[2] = sr_last.fused[1]

\* the indexed chunks whose text is the query
ExactMatches == { i \in 1..Len(sr_chunks) : sr_chunks[i].text = sr_last.query }

\* C19: with no embedding generator (and no graph boost at work), when
\* exactly one indexed chunk has the query as its text, that chunk is the
\* first result of search().
C19_ExactMatchFirst ==
    (/\ Searched
     /\ ~sr_embed
     /\ ~(sr_last.use_graph_boost /\ sr_graph)
     /\ Cardinality(ExactMatches) = 1) =>
        /\ sr_last.results # <<>>
        /\ sr_last.results[1].text = sr_last.query

\* C19 failing input reached: the chunk whose text is the query is indexed
\* after a chunk that contains every query term; both score the same and
\* the exact match is ranked second.
C19_Witness ==
    /\ Searched /\ ~sr_embed /\ ~sr_last.use_graph_boost
    /\ Cardinality(ExactMatches) = 1
    /\ Len(sr_last.results) = 2
    /\ sr_last.results[2].text = sr_last.query
    /\ sr_last.results[1].text # sr_last.query
    /\ sr_last.results[1].score = sr_last.results[2].score


-----------------------------------------------------------------------------
(* Claims about task search (SpecTasks).                                    *)

TasksReturned == ts_last.op = "search_tasks_nl" /\ ts_last.ret.kind = "returned"

\* the query as search_tasks_nl reads it, and the tasks in scope
TheQuery == str_lower(str_strip(ts_last.query))
ScopedTasks ==
    _scope_tasks(ts_last.tasks, ts_last.workspace_id, None, ts_last.include_done)

FilterOrder == <<"overdue", "today", "tomorrow", "this week", "high priority", "note id">>

HasNoteTrigger(q) == IsIn(W_note_colon, q) \/ IsIn(W_from \o SP \o W_note \o SP, q)

\* the families whose literal trigger, as the specification lists them, is in
\* the query
ListedTriggers(q) ==
    { f \in Range(FilterOrder) :
        \/ f = "overdue" /\ IsIn(W_overdue, q)
        \/ f = "today" /\ IsIn(W_today, q)
        \/ f = "tomorrow" /\ IsIn(W_tomorrow, q)
        \/ f = "this week" /\ IsIn(W_this \o SP \o W_week, q)
        \/ f = "high priority" /\ IsIn(W_high \o SP \o W_priority, q)
        \/ f = "note id" /\ HasNoteTrigger(q) }

\* the same with "week" alone triggering the week family and "priority high"
\* the priority family
WidenedTriggers(q) ==
    ListedTriggers(q)
        \cup (IF IsIn(W_week, q) THEN {"this week"} ELSE {})
        \cup (IF IsIn(W_priority \o SP \o W_high, q) THEN {"high priority"} ELSE {})

\* the family of a set that comes first in the order
FirstFamily(present) ==
    FilterOrder[CHOOSE i \in 1..Len(FilterOrder) :
                    /\ FilterOrder[i] \in present
                    /\ \A j \in 1..(i - 1) : FilterOrder[j] \notin present]

\* the predicate of a filter family on a task
Satisfies(f, t) ==
    LET dated == t.due_date # None /\ TheValue(t.due_date).iso
        days == TheValue(t.due_date).days
    IN  CASE f = "overdue" ->
                 dated /\ days < 0 /\ t.status \notin {Some("done"), Some("archived")}
          [] f = "today" -> dated /\ days = 0
          [] f = "tomorrow" -> dated /\ days = 1
          [] f = "this week" ->
                 dated /\ 0 - ts_last.weekday <= days /\ days <= 6 - ts_last.weekday
          [] f = "high priority" -> t.priority = Some("high")
          [] f = "note id" ->
                 /\ t.note_id # None
                 /\ str_lower(TheValue(t.note_id)) = _extract_note_id(TheQuery).id

\* the results are the tasks in scope that satisfy the predicate of the
\* family, each once, and no other filter has been applied
OnlyFilter(f) ==
    LET results == ts_last.ret.results
    IN  /\ \A i \in 1..Len(results) :
              /\ results[i].source = "nl_filter"
              /\ Satisfies(f, results[i].task.task)
        /\ Len(results) =
              Cardinality({ i \in 1..Len(ScopedTasks) : Satisfies(f, ScopedTasks[i]) })

NamesNote(q) ==
    \E sep \in {W_note_colon, W_from \o SP \o W_note \o SP} :
        \E p \in 0..Len(q) :
            /\ MatchLiteral(sep, q, p)
            /\ p + Len(sep) < Len(q)
            /\ ~IsSpace(q[p + Len(sep) + 1])

\* the query contains none of "overdue", "today", "tomorrow", "this week",
\* "high priority", "note:<id>", "from note <id>"
NoListedTrigger(q) ==
    /\ ListedTriggers(q) \subseteq {"note id"}
    /\ ~NamesNote(q)

\* the term-overlap scan over the tasks in scope, as results
LexicalScan ==
    _to_task_results(
        _task_text_search([i \in 1..Len(ScopedTasks) |-> _enrich_task(ScopedTasks[i])],
                          TheQuery),
        "text")

\* C21 as stated: for a query with none of the literal triggers,
\* search_tasks_nl applies no date, priority or note filter: it returns the
\* results of the lexical scan over the tasks in scope, with source "text".
C21_NoTriggerFallsBack ==
    (ts_last.op = "search_tasks_nl" /\ NoListedTrigger(TheQuery)) =>
        /\ ts_last.ret.kind = "returned"
        /\ ts_last.ret.results = LexicalScan

\* C21 witness: a query that ends in "note:" and has none of the literal
\* triggers was put to tasks in scope that the scan would return, and the
\* call raised.
C21_Witness ==
    /\ ts_last.op = "search_tasks_nl"
    /\ NoListedTrigger(TheQuery)
    /\ IsIn(W_note_colon, TheQuery)
    /\ LexicalScan # <<>>
    /\ ts_last.ret.kind = "raised"

-----------------------------------------------------------------------------
(* Claims about task urgency (SpecUrgency).                                 *)

Enriched == ts_last.op = "enrich_tasks"

\* the specified urgency of a task, in fourteenths of a ten-thousandth
\* before the clamp: base by priority, the due-date increment, 0.05 when in
\* progress
SpecifiedUrgency14(t) ==
    LET base == CASE t.priority = Some("low") -> 2000
                  [] t.priority = Some("medium") -> 5000
                  [] t.priority = Some("high") -> 8000
        dated == t.due_date # None /\ TheValue(t.due_date).iso
        days == TheValue(t.due_date).days
        late == IF 0 - days < 14 THEN 0 - days ELSE 14
        due14 == IF ~dated THEN 14 * 500
                 ELSE IF days < 0 THEN 14 * 3500 + late * 3000
                 ELSE IF days = 0 THEN 14 * 3000
                 ELSE IF days \in 1..3 THEN 14 * 2000
                 ELSE IF days \in 4..7 THEN 14 * 1000
                 ELSE 14 * 200
    IN  IF t.status \in {Some("done"), Some("archived")} THEN 0
        ELSE 14 * base + due14 + (IF t.status = Some("in_progress") THEN 14 * 500 ELSE 0)

Clamp14(n14) == IF n14 > 14 * 10000 THEN 14 * 10000 ELSE IF n14 < 0 THEN 0 ELSE n14

\* C22: for every priority low, medium or high, every status and every due
\* date (a number of days from the reference day, absent, or malformed)
\* the urgency_score of enrich_tasks is the specified formula clamped to
\* [0,1] and rounded to 4 decimals: 0 for done or archived; otherwise base
\* plus due-date increment plus 0.05 when in progress; a high-priority task
\* overdue by 20 days scores 1.0.
C22_UrgencyFormula ==
    Enriched =>
        \A i \in 1..Len(ts_last.ret) :
            LET t == ts_last.ret[i].task
                score == ts_last.ret[i].urgency_score
                exact14 == Clamp14(SpecifiedUrgency14(t))
            IN  t.priority \in {Some("low"), Some("medium"), Some("high")} =>
                    /\ 2 * (14 * score - exact14) <= 14
                    /\ 2 * (exact14 - 14 * score) <= 14
                    /\ score \in 0..10000
                    /\ (t.status \in {Some("done"), Some("archived")} => score = 0)
                    /\ (/\ t.priority = Some("high")
                        /\ t.status \notin {Some("done"), Some("archived")}
                        /\ t.due_date = Some(IsoDate(-20))) => score = 10000

\* C22 witness: a low-priority task three days late was enriched and scores
\* 0.6143, the formula's 0.2 + 0.35 + 3/14 * 0.30 rounded.
C22_Witness ==
    /\ Enriched
    /\ \E i \in 1..Len(ts_last.ret) :
          /\ ts_last.ret[i].task.priority = Some("low")
          /\ ts_last.ret[i].task.status = Some("todo")
          /\ ts_last.ret[i].task.due_date = Some(IsoDate(-3))
          /\ ts_last.ret[i].urgency_score = 6143

\* the urgency_score the intelligence layer computes for a task, and the one
\* the search engine attaches to it, both in ten-thousandths
LayerUrgency(t) == EnrichOne(t).urgency_score
EngineUrgency(t) == 100 * _enrich_task(t).urgency_score

\* C27: for every task, on the same day, the urgency_score that the search
\* engine attaches to a task equals the one enrich_tasks of the intelligence
\* layer computes for it.
C27_SameUrgency ==
    /\ ts_last.op = "search_tasks_structured" =>
          \A i \in 1..Len(ts_last.ret) :
              100 * ts_last.ret[i].score = LayerUrgency(ts_last.ret[i].task.task)
    /\ ts_last.op = "enrich_tasks" =>
          \A i \in 1..Len(ts_last.ret) :
              ts_last.ret[i].urgency_score = EngineUrgency(ts_last.ret[i].task)

\* C27 witness: the structured search returned a low-priority open task due
\* in nine days with score 0.2, for which the intelligence layer computes
\* 0.22.
C27_Witness ==
    /\ ts_last.op = "search_tasks_structured"
    /\ \E i \in 1..Len(ts_last.ret) :
          /\ ts_last.ret[i].task.task.priority = Some("low")
          /\ ts_last.ret[i].task.task.status = Some("todo")
          /\ ts_last.ret[i].task.task.due_date = Some(IsoDate(9))
          /\ ts_last.ret[i].score = 20
          /\ LayerUrgency(ts_last.ret[i].task.task) = 2200

-----------------------------------------------------------------------------
(* More claims about extract() (SpecExtract).                               *)

\* the objects array of the answer the object pass accepted
AcceptedObjectItems == PassLog("obj")[Calls("obj")].items

\* a confidence within [0,1], in tenths
InUnit(c) == c \in 0..10

\* max(0, min(1, c)) in tenths
Clamped(c) == IF c > 10 THEN 10 ELSE IF c < 0 THEN 0 ELSE c

\* C23: an object or a link constructed with confidence c stores
\* max(0, min(1, c)): every object and link of the result carries the
\* clamped confidence of the answered item it was built from, and every
\* object, link and mention of the result (and of both tables) has a
\* confidence within [0,1].
C23_ConfidenceClamped ==
    /\ \A k \in 1..Len(all_objects) : InUnit(all_objects[k].confidence)
    /\ \A k \in 1..Len(objects_table) : InUnit(objects_table[k].confidence)
    /\ \A k \in 1..Len(links_table) : InUnit(links_table[k].confidence)
    /\ Returned =>
          /\ \A k \in 1..Len(TheResult.objects) :
                /\ InUnit(TheResult.objects[k].confidence)
                /\ \E i \in 1..Len(AcceptedObjectItems) :
                      /\ AcceptedObjectItems[i].type = TheResult.objects[k].type
                      /\ AcceptedObjectItems[i].text = TheResult.objects[k].canonical_text
                      /\ TheResult.objects[k].confidence =
                             Clamped(AcceptedObjectItems[i].confidence)
          /\ \A k \in 1..Len(TheResult.links) :
                /\ InUnit(TheResult.links[k].confidence)
                /\ \E i \in 1..Len(AcceptedLinkItems) :
                      /\ AcceptedLinkItems[i].source_id = TheResult.links[k].source_id
                      /\ AcceptedLinkItems[i].target_id = TheResult.links[k].target_id
                      /\ AcceptedLinkItems[i].type = TheResult.links[k].type
                      /\ TheResult.links[k].confidence =
                             Clamped(AcceptedLinkItems[i].confidence)
          /\ \A k \in 1..Len(TheResult.mentions) :
                InUnit(TheResult.mentions[k].confidence)

\* C23 witness: the service answered an object with confidence 1.5, one
\* with -0.3 and a link with 1.5; the result holds them with 1.0, 0.0 and
\* 1.0, and a mention with 0.0.
C23_Witness ==
    /\ Returned
    /\ \E i \in 1..Len(AcceptedObjectItems) : AcceptedObjectItems[i].confidence = 15
    /\ \E i \in 1..Len(AcceptedObjectItems) : AcceptedObjectItems[i].confidence = -3
    /\ \E k \in 1..Len(TheResult.objects) : TheResult.objects[k].confidence = 10
    /\ \E k \in 1..Len(TheResult.objects) : TheResult.objects[k].confidence = 0
    /\ \E k \in 1..Len(TheResult.mentions) : TheResult.mentions[k].confidence = 0
    /\ \E k \in 1..Len(TheResult.links) :
          /\ TheResult.links[k].confidence = 10
          /\ \E i \in 1..Len(AcceptedLinkItems) : AcceptedLinkItems[i].confidence = 15

\* C24: the relationship pass calls the service only when at least two
\* deduplicated objects exist; with no object or one object it makes no
\* call and the result has no links.
C24_RelationshipsNeedTwoObjects ==
    /\ (pc = "rel" \/ Calls("rel") >= 1) => Len(all_objects) >= 2
    /\ (Returned /\ Len(TheResult.objects) < 2) =>
          /\ Calls("rel") = 0
          /\ TheResult.links = <<>>

\* C24 witness: the service answered two objects, deduplication left one,
\* and extract() returned it without a call of the relationship pass.
C24_Witness ==
    /\ Returned
    /\ Len(SelectSeq(AcceptedObjectItems, LAMBDA it : it.type \in ObjectTypes)) >= 2
    /\ Len(TheResult.objects) = 1
    /\ Calls("rel") = 0
    /\ TheResult.links = <<>>

-----------------------------------------------------------------------------
(* More claims about chunk_text_task (SpecSegment).                         *)

\* the last call of chunk_text_task has returned
Completed == seg_pc = "idle" /\ seg_ret.kind = "returned"

\* the rows of a note, in table order
NoteRows(rows, note_id) == SelectSeq(rows, LAMBDA r : r.note_id = note_id)

\* the rows a spans list is stored as
RowsOf(list) ==
    [k \in 1..Len(list) |->
        SpanRow(TheNote, list[k].chunk_index, list[k].start_char,
                list[k].end_char, list[k].token_count)]

\* C25: after chunk_text_task has completed, whatever rows the note had
\* before, its rows are exactly the spans of this run, with chunk_index
\* 0..n-1 each once and start_char strictly increasing with chunk_index;
\* the rows of other notes are unchanged; and a run on rows that are
\* already the spans of the same text and parameters leaves the table as it
\* was.
C25_RechunkSupersedes ==
    Completed =>
        LET mine == NoteRows(spans_table, TheNote)
        IN  /\ mine = RowsOf(spans)
            /\ seg_ret.value = Len(mine)
            /\ \A k \in 1..Len(mine) : mine[k].chunk_index = k - 1
            /\ \A j, k \in 1..Len(mine) :
                  j < k => mine[j].start_char < mine[k].start_char
            /\ NoteRows(spans_table, OtherNote) = NoteRows(seg_before.rows, OtherNote)
            /\ NoteRows(seg_before.rows, TheNote) = RowsOf(spans) =>
                  spans_table = seg_before.rows

\* C25 witness: a note that had two spans was chunked again with other
\* parameters; the call has returned and the note has other spans.
C25_Witness ==
    /\ Completed
    /\ Len(NoteRows(seg_before.rows, TheNote)) >= 2
    /\ Len(NoteRows(spans_table, TheNote)) >= 2
    /\ NoteRows(spans_table, TheNote) # NoteRows(seg_before.rows, TheNote)

-----------------------------------------------------------------------------
(* The termination of the segmentation loop (SpecSegmentLoop).              *)

InLoop == seg_pc = "loop"

\* an iteration emits one span and moves start_idx to a later sentence
IterationAdvances ==
    (InLoop /\ seg_pc' = "loop") =>
        /\ Len(spans') = Len(spans) + 1
        /\ seg_ret'.start_idx > seg_ret.start_idx
        /\ seg_ret'.start_idx <= Len(Sentences(note_sents))

\* C26: the loop of chunk_text_task terminates for every sentence list and
\* every window_size and min_tokens: an iteration emits one span and moves
\* the window start to a strictly later sentence, no more spans are
\* produced than there are sentences, and a call that is in the loop
\* leaves it.
C26_LoopTerminates ==
    /\ [][IterationAdvances]_vars
    /\ [](InLoop => Len(spans) <= seg_ret.start_idx)
    /\ [](Len(spans) <= Len(Sentences(note_sents)))
    /\ (InLoop ~> seg_pc = "delete")

\* C26 witness: with a window_size of 0 or less the loop has ended after
\* one span per sentence of a note of three sentences.
C26_Witness ==
    /\ seg_pc = "delete"
    /\ seg_args.window_size <= 0
    /\ Len(Sentences(note_sents)) = 3
    /\ Len(spans) = 3

-----------------------------------------------------------------------------
(* More claims about chunk search (SpecSearch).                             *)

\* the number of distinct terms of the query that the text contains
DistinctTermsIn(query, text) ==
    Cardinality({ term \in Range(Split(str_lower(query))) :
                    IsIn(term, str_lower(text)) })

\* C28: with no embedding service and the graph boost disabled, after any
\* sequence of index_chunk calls, also calls that repeat a chunk id, every
\* result of search() has source "keyword" and as score 10 times the number
\* of distinct query terms its text contains; none is tagged "hybrid".
C28_KeywordOnlyResults ==
    (Searched /\ ~sr_embed /\ ~sr_last.use_graph_boost) =>
        \A i \in 1..Len(sr_last.results) :
            /\ sr_last.results[i].source = "keyword"
            /\ sr_last.results[i].score =
                   1000 * DistinctTermsIn(sr_last.query, sr_last.results[i].text)

\* C28 failing input reached: no embedding service, the boost disabled, a
\* chunk id indexed twice: search() returns it once, tagged "hybrid", with
\* a score above 10 times the number of terms of the query.
C28_Witness ==
    /\ Searched
    /\ ~sr_embed
    /\ ~sr_last.use_graph_boost
    /\ Len(sr_chunks) = 2
    /\ sr_chunks[1].id = sr_chunks[2].id
    /\ Len(sr_last.results) = 1
    /\ sr_last.results[1].source = "hybrid"
    /\ sr_last.results[1].score > 1000 * Len(Split(sr_last.query))

-----------------------------------------------------------------------------
(* The tables of the extractor over several calls (SpecExtractRepeat).      *)

\* the rows of objects_table with an id
RowsWithId(id) == { i \in 1..Len(objects_table) : objects_table[i].id = id }

\* C29: after any sequence of extract() calls on one LLMExtractor,
\* objects_table holds no two objects with the same id, and each endpoint
\* of every link of links_table is the id of exactly one object of
\* objects_table.
C29_TablesConsistent ==
    /\ \A i, j \in 1..Len(objects_table) :
          objects_table[i].id = objects_table[j].id => i = j
    /\ \A k \in 1..Len(links_table) :
          /\ Cardinality(RowsWithId(links_table[k].source_id)) = 1
          /\ Cardinality(RowsWithId(links_table[k].target_id)) = 1

\* C29 failing input reached: two calls of extract() have returned, each
\* saved an object "obj_001", and a saved link has "obj_001" as source.
C29_Witness ==
    /\ pc = "done"
    /\ Cardinality(RowsWithId("obj_001")) = 2
    /\ \E k \in 1..Len(links_table) : links_table[k].source_id = "obj_001"

-----------------------------------------------------------------------------
(* The status of the note and its rows, write by write (SpecSegment).       *)

\* C30: in every state reachable while chunk_text_task runs, each database
\* write a step, and after it has returned, a note whose status is
\* 'chunked' has as rows exactly the spans of the chunking that set the
\* status: never the spans of an earlier or a later chunking, never none
\* because they are deleted and not yet inserted again.
C30_ChunkedMeansItsSpans ==
    note_status = "chunked" =>
        NoteRows(spans_table, TheNote) = RowsOf(seg_before.chunked_by)

\* C30 failing input reached: a note that is 'chunked' with two spans is
\* chunked again; after delete_spans and before insert_spans its status is
\* still 'chunked' and it has no rows.
C30_Witness ==
    /\ seg_pc = "insert"
    /\ note_status = "chunked"
    /\ Len(seg_before.chunked_by) = 2
    /\ NoteRows(seg_before.rows, TheNote) = RowsOf(seg_before.chunked_by)
    /\ NoteRows(spans_table, TheNote) = <<>>

=============================================================================
